---------------------------- MODULE Spec2Model ----------------------------
(***************************************************************************)
(* A model of the Magolor front end: the lexer (lexer.go), the token and   *)
(* precedence tables (token.go) and the recursive-descent / Pratt parser   *)
(* (parser.go), driven the way main does (part_000): a lexer is built on a *)
(* source text and is then either read token by token (demoLexer), handed  *)
(* to a parser that runs ParseProgram, or handed to a parser on which      *)
(* parseExpression(LOWEST) is called directly (demoTypeofEvaluation).      *)
(*                                                                         *)
(* Bytes are one-character strings; the byte 0 is the value NUL.  Go's     *)
(* 0-based positions are kept, so input[i] of the code is input[i+1] here. *)
(* An interface value that is nil is the record Nil; a nil pointer stored  *)
(* in an interface (what `return p.parseIfStatement()` yields when the     *)
(* callee returns nil) is NilPtr(type): it compares unequal to nil, as in  *)
(* Go.                                                                     *)
(***************************************************************************)
EXTENDS Integers, Sequences, FiniteSets, TLC

VARIABLES
    words,    \* the source text as a sequence of lexemes (how the input was drawn)
    pc,       \* "new" | "lex" | "parse" | "done" | "expr"
    lexer,    \* the Lexer object: input, position, readPosition, ch
    tok,      \* the token the last direct NextToken call returned
    p,        \* the Parser object: lexer, curToken, peekToken, peekPeek, errors
    program,  \* Program.Statements being built by ParseProgram
    last      \* what the last top-level call returned, and the state it started in

vars == <<words, pc, lexer, tok, p, program, last>>

-----------------------------------------------------------------------------
(* token.go: token kinds *)

ILLEGAL   == "ILLEGAL"
EOF       == "EOF"
IDENT     == "IDENT"
INT       == "INT"
STRING_T  == "STRING"
FLOAT     == "FLOAT"
BOOL      == "BOOL"
NIL       == "NIL"
LPAREN    == "("
RPAREN    == ")"
LBRACE    == "{"
RBRACE    == "}"
COMMA     == ","
SEMICOLON == ";"
ADD       == "+"
SUB       == "-"
MUL       == "*"
DIV       == "/"
ASSIGN    == "="
EQ        == "=="
NOT_EQ    == "!="
LT        == "<"
GT        == ">"
NOT       == "!"
AND       == "&&"
OR        == "||"
LE        == "<="
GE        == ">="
MOD       == "%"
IF_KW     == "if"
ELSE_KW   == "else"
WHILE     == "while"
FOR       == "for"
LOOP      == "loop"
IN_KW     == "in"
FUNC      == "fn"
RETURN    == "return"
TYPE      == "TYPE"
VOID      == "void"
TYPEOF    == "typeof"
BREAK     == "break"
CONTINUE  == "continue"

Token(type, literal) == [Type |-> type, Literal |-> literal]

\* the zero value of Token (`var tok Token`, the fields of a fresh Parser)
ZeroToken == Token("", <<>>)

(* token.go: precedence levels and the precedence table *)
LOWEST      == 1
OR_PREC     == 2
AND_PREC    == 3
EQUALS      == 4
LESSGREATER == 5
SUM         == 6
PRODUCT     == 7
PREFIX      == 8
CALL        == 9

precedences ==
    [t \in {OR, AND, EQ, NOT_EQ, LT, GT, LE, GE, ADD, SUB, MUL, DIV, MOD, LPAREN} |->
        CASE t = OR     -> OR_PREC
          [] t = AND    -> AND_PREC
          [] t = EQ     -> EQUALS
          [] t = NOT_EQ -> EQUALS
          [] t = LT     -> LESSGREATER
          [] t = GT     -> LESSGREATER
          [] t = LE     -> LESSGREATER
          [] t = GE     -> LESSGREATER
          [] t = ADD    -> SUM
          [] t = SUB    -> SUM
          [] t = MUL    -> PRODUCT
          [] t = DIV    -> PRODUCT
          [] t = MOD    -> PRODUCT
          [] t = LPAREN -> CALL]

-----------------------------------------------------------------------------
(* lexer.go *)

NUL == "<NUL>"

\* a byte is a one-character string: the byte b is the character U+00b, which
\* is also the rune that Go's rune(ch) widens it to.  The bytes 0x80 to 0xBF
\* and 0xC0 to 0xFF, in order:
ContinuationBytes ==
    <<
     "", "", "", "", "", "", "", "", "", "", "", "", "", "", "", "",
     "", "", "", "", "", "", "", "", "", "", "", "", "", "", "", "",
     " ", "¡", "¢", "£", "¤", "¥", "¦", "§", "¨", "©", "ª", "«", "¬", "­", "®", "¯",
     "°", "±", "²", "³", "´", "µ", "¶", "·", "¸", "¹", "º", "»", "¼", "½", "¾", "¿"
    >>

UpperBytes ==
    <<
     "À", "Á", "Â", "Ã", "Ä", "Å", "Æ", "Ç", "È", "É", "Ê", "Ë", "Ì", "Í", "Î", "Ï",
     "Ð", "Ñ", "Ò", "Ó", "Ô", "Õ", "Ö", "×", "Ø", "Ù", "Ú", "Û", "Ü", "Ý", "Þ", "ß",
     "à", "á", "â", "ã", "ä", "å", "æ", "ç", "è", "é", "ê", "ë", "ì", "í", "î", "ï",
     "ð", "ñ", "ò", "ó", "ô", "õ", "ö", "÷", "ø", "ù", "ú", "û", "ü", "ý", "þ", "ÿ"
    >>

\* unicode.IsLetter(rune(ch)) for a byte: the ASCII letters and the letters of
\* Latin-1 (0xAA, 0xB5, 0xBA, 0xC0-0xD6, 0xD8-0xF6, 0xF8-0xFF)
Latin1Letters ==
    {
     "ª", "µ", "º", "À", "Á", "Â", "Ã", "Ä", "Å", "Æ", "Ç", "È", "É", "Ê", "Ë", "Ì",
     "Í", "Î", "Ï", "Ð", "Ñ", "Ò", "Ó", "Ô", "Õ", "Ö", "Ø", "Ù", "Ú", "Û", "Ü", "Ý",
     "Þ", "ß", "à", "á", "â", "ã", "ä", "å", "æ", "ç", "è", "é", "ê", "ë", "ì", "í",
     "î", "ï", "ð", "ñ", "ò", "ó", "ô", "õ", "ö", "ø", "ù", "ú", "û", "ü", "ý", "þ",
     "ÿ"
    }

Letters ==
    {"a","b","c","d","e","f","g","h","i","j","k","l","m","n","o","p","q","r","s",
     "t","u","v","w","x","y","z","A","B","C","D","E","F","G","H","I","J","K","L",
     "M","N","O","P","Q","R","S","T","U","V","W","X","Y","Z"} \cup Latin1Letters

Digits == {"0","1","2","3","4","5","6","7","8","9"}

isLetter(ch) == ch \in Letters \/ ch = "_"

isDigit(ch) == ch \in Digits

\* input[from:to]: a Go string is its sequence of bytes
Slice(input, from, to) == SubSeq(input, from + 1, to)

\* the text of a byte sequence, for comparing with a string constant of the code
RECURSIVE Str(_)
Str(s) == IF s = <<>> THEN "" ELSE Head(s) \o Str(Tail(s))

\* strings.Contains(lit, ".")
Contains(lit, ch) == \E i \in 1..Len(lit) : lit[i] = ch

readChar(l) ==
    [l EXCEPT !.ch = IF l.readPosition >= Len(l.input)
                     THEN NUL
                     ELSE l.input[l.readPosition + 1],
              !.position = l.readPosition,
              !.readPosition = l.readPosition + 1]

NewLexer(input) ==
    readChar([input |-> input, position |-> 0, readPosition |-> 0, ch |-> NUL])

peekChar(l) ==
    IF l.readPosition >= Len(l.input) THEN NUL ELSE l.input[l.readPosition + 1]

RECURSIVE skipWhitespace(_)
skipWhitespace(l) ==
    IF l.ch = " " \/ l.ch = "\t" \/ l.ch = "\n" \/ l.ch = "\r"
    THEN skipWhitespace(readChar(l))
    ELSE l

RECURSIVE readWhile(_, _)
readWhile(l, class) == IF l.ch \in class THEN readWhile(readChar(l), class) ELSE l

readIdentifier(l) ==
    LET l2 == readWhile(l, Letters \cup {"_"})
    IN  [l |-> l2, lit |-> Slice(l.input, l.position, l2.position)]

readNumber(l) ==
    LET l2 == readWhile(l, Digits)
        l3 == IF l2.ch = "." THEN readWhile(readChar(l2), Digits) ELSE l2
    IN  [l |-> l3, lit |-> Slice(l.input, l.position, l3.position)]

RECURSIVE readStringLoop(_)
readStringLoop(l) ==
    LET l2 == readChar(l)
    IN  IF l2.ch = "\"" \/ l2.ch = NUL THEN l2 ELSE readStringLoop(l2)

readString(l) ==
    LET l2 == readStringLoop(l)
    IN  [l |-> l2, lit |-> Slice(l.input, l.position + 1, l2.position)]

lookupIdent(lit) ==
    LET ident == Str(lit) IN
    CASE ident = "if" -> IF_KW
      [] ident = "else" -> ELSE_KW
      [] ident \in {"int", "string", "void", "float"} -> TYPE
      [] ident = "return" -> RETURN
      [] ident \in {"fn", "func"} -> FUNC
      [] ident = "typeof" -> TYPEOF
      [] ident = "loop" -> LOOP
      [] ident = "while" -> WHILE
      [] ident = "for" -> FOR
      [] ident = "in" -> IN_KW
      [] ident \in {"true", "false"} -> BOOL
      [] ident \in {"null", "nil"} -> NIL
      [] ident = "break" -> BREAK
      [] ident = "continue" -> CONTINUE
      [] OTHER -> IDENT

\* the one-byte cases of NextToken's switch
SingleCharTokens == {"(", ")", "{", "}", ",", ";", "*", "-", "+", "/", "<", ">", "%"}

\* `case '=':`, `case '!':`, `case '&':`, `case '|':` of NextToken's switch
twoCharToken(l, second, double, single) ==
    IF peekChar(l) = second
    THEN [l |-> readChar(l), tok |-> Token(double, <<l.ch, second>>)]
    ELSE [l |-> l, tok |-> Token(single, <<l.ch>>)]

\* string(l.ch): the UTF-8 encoding of the rune rune(ch), one byte below 0x80
\* and two bytes from 0x80 on (0xC2 ch up to 0xBF, 0xC3 ch-0x40 from 0xC0)
stringOfByte(ch) ==
    IF \E i \in DOMAIN ContinuationBytes : ContinuationBytes[i] = ch
    THEN <<"Â", ch>>
    ELSE IF \E i \in DOMAIN UpperBytes : UpperBytes[i] = ch
    THEN <<"Ã", ContinuationBytes[CHOOSE i \in DOMAIN UpperBytes : UpperBytes[i] = ch]>>
    ELSE <<ch>>

\* `case 0:` of NextToken's switch
\* case 0 left out of the switch: the byte 0 falls to the default branch
zeroCaseIllegal(l) == [l |-> l, tok |-> Token(ILLEGAL, <<l.ch>>)]

zeroCase(l) == [l |-> l, tok |-> Token(EOF, <<>>)]

\* `default:` of NextToken's switch; the first two branches return at once,
\* the last falls through to the readChar that ends NextToken
defaultCase(l) ==
    IF isLetter(l.ch)
    THEN LET r == readIdentifier(l)
         IN  [l |-> r.l, tok |-> Token(lookupIdent(r.lit), r.lit)]
    ELSE IF isDigit(l.ch)
    THEN LET r == readNumber(l)
         IN  [l |-> r.l, tok |-> Token(IF Contains(r.lit, ".") THEN FLOAT ELSE INT, r.lit)]
    ELSE [l |-> readChar(l), tok |-> Token(ILLEGAL, stringOfByte(l.ch))]

\* the cases of the switch that end in NextToken's final readChar
switchCase(l) ==
    CASE l.ch \in SingleCharTokens -> [l |-> l, tok |-> Token(l.ch, <<l.ch>>)]
      [] l.ch = "=" -> twoCharToken(l, "=", EQ, ASSIGN)
      [] l.ch = "!" -> twoCharToken(l, "=", NOT_EQ, NOT)
      [] l.ch = "&" -> twoCharToken(l, "&", AND, ILLEGAL)
      [] l.ch = "|" -> twoCharToken(l, "|", OR, ILLEGAL)
      [] l.ch = "\"" -> LET r == readString(l) IN [l |-> r.l, tok |-> Token(STRING_T, r.lit)]
      [] l.ch = NUL -> zeroCase(l)

\* NextToken: the token at the lexer's position, and the lexer after it
NextToken(l0) ==
    LET l == skipWhitespace(l0)
    IN  IF l.ch \in SingleCharTokens \cup {"=", "!", "&", "|", "\"", NUL}
        THEN LET r == switchCase(l) IN [l |-> readChar(r.l), tok |-> r.tok]
        ELSE defaultCase(l)

-----------------------------------------------------------------------------
(* ast.go: nodes.  Every node is a record with a `node` field naming its Go type. *)

\* a nil interface value (Expression or Statement)
Nil == [node |-> "nil"]

\* a nil pointer of type *t, also when it is stored in an interface
NilPtr(t) == [node |-> "nilptr", type |-> t]

\* Go's `x == nil` on an interface value
IsNil(n) == n.node = "nil"

\* no node: a nil interface or a nil pointer
Absent(n) == n.node \in {"nil", "nilptr"}

Identifier(t) == [node |-> "Identifier", Token |-> t, Value |-> t.Literal]

InfixExpression(t, left, right) ==
    [node |-> "InfixExpression", Token |-> t, Operator |-> t.Literal,
     Left |-> left, Right |-> right]

PrefixExpression(t, right) ==
    [node |-> "PrefixExpression", Token |-> t, Operator |-> t.Literal, Right |-> right]

BlockStatement(t, stmts) == [node |-> "BlockStatement", Token |-> t, Statements |-> stmts]

-----------------------------------------------------------------------------
(* strconv, as far as the parser uses it *)

MaxInt64 == <<"9","2","2","3","3","7","2","0","3","6","8","5","4","7","7","5","8","0","7">>

RECURSIVE StripZeros(_)
StripZeros(d) == IF Len(d) > 1 /\ Head(d) = "0" THEN StripZeros(Tail(d)) ELSE d

DigitValue(ch) == CHOOSE v \in 0..9 : <<"0","1","2","3","4","5","6","7","8","9">>[v + 1] = ch

\* a < b for two digit strings of the same length
DigitsLess(a, b) ==
    \E i \in 1..Len(a) :
        /\ DigitValue(a[i]) < DigitValue(b[i])
        /\ \A j \in 1..(i - 1) : a[j] = b[j]

\* strconv.ParseInt(lit, 10, 32): the conversion at the width of int32
ParseInt32(lit) ==
    IF lit = <<>> \/ \E i \in 1..Len(lit) : ~isDigit(lit[i])
    THEN [ok |-> FALSE, value |-> <<"0">>]
    ELSE LET d == StripZeros(lit)
             m == <<"2","1","4","7","4","8","3","6","4","7">>
         IN  IF Len(d) > Len(m) \/ (Len(d) = Len(m) /\ DigitsLess(m, d))
             THEN [ok |-> FALSE, value |-> m]
             ELSE [ok |-> TRUE, value |-> d]

\* strconv.ParseInt(lit, 10, 64) on an unsigned decimal: the value is kept as
\* its canonical numeral, since it may not fit TLC's integers
ParseInt(lit) ==
    IF lit = <<>> \/ \E i \in 1..Len(lit) : ~isDigit(lit[i])
    THEN [ok |-> FALSE, value |-> <<"0">>]
    ELSE LET d == StripZeros(lit)
         IN  IF Len(d) > Len(MaxInt64) \/ (Len(d) = Len(MaxInt64) /\ DigitsLess(MaxInt64, d))
             THEN [ok |-> FALSE, value |-> MaxInt64]
             ELSE [ok |-> TRUE, value |-> d]

\* A natural number of any size: its limbs in base LimbBase, lowest first,
\* without high zero limbs (TLC's integers have 32 bits, the decimal
\* conversion needs more than a thousand).  The passes over limbs and digits
\* split their range in two and compute what they carry along (c, r, x)
\* before they go on, which keeps the evaluation shallow.
LimbBits == 15
LimbBase == 2 ^ LimbBits

\* four decimal digits are handled in one step
ChunkDigits == 4
ChunkBase == 10 ^ ChunkDigits

\* x without its high zero limbs
Trim(x) ==
    IF \A i \in DOMAIN x : x[i] = 0 THEN <<>>
    ELSE SubSeq(x, 1, CHOOSE i \in DOMAIN x : x[i] # 0 /\ \A j \in (i + 1)..Len(x) : x[j] = 0)

\* the limbs lo..hi of x * m + c * LimbBase^(lo-1), followed by the carry
\* into limb hi + 1; m <= LimbBase and c < LimbBase
RECURSIVE MulRange(_, _, _, _, _)
MulRange(x, m, c, lo, hi) ==
    IF lo = hi \/ c < 0
    THEN <<(x[lo] * m + c) % LimbBase, (x[lo] * m + c) \div LimbBase>>
    ELSE LET mid  == (lo + hi) \div 2
             low  == MulRange(x, m, c, lo, mid)
             high == MulRange(x, m, low[Len(low)], mid + 1, hi)
         IN  SubSeq(low, 1, Len(low) - 1) \o high

\* x * m + c
MulAdd(x, m, c) ==
    IF x = <<>> THEN Trim(<<c>>) ELSE Trim(MulRange(x, m, c, 1, Len(x)))

\* the number written by the decimal digits ds[from..to], at most four
ChunkValue(ds, from, to) ==
    LET d(j) == IF j < from THEN 0 ELSE DigitValue(ds[j])
    IN  1000 * d(to - 3) + 100 * d(to - 2) + 10 * d(to - 1) + d(to)

\* the number written by x followed by the decimal digits ds[from..to]
RECURSIVE AppendDigits(_, _, _, _)
AppendDigits(x, ds, from, to) ==
    IF to < from \/ Len(x) < 0 THEN x
    ELSE IF to - from < ChunkDigits
    THEN MulAdd(x, 10 ^ (to - from + 1), ChunkValue(ds, from, to))
    ELSE LET mid == (from + to) \div 2
         IN  AppendDigits(AppendDigits(x, ds, from, mid), ds, mid + 1, to)

\* the number written by the decimal digits ds
FromDigits(ds) == AppendDigits(<<>>, ds, 1, Len(ds))

\* x * 2^s
ShiftLeft(x, s) ==
    IF x = <<>> THEN <<>>
    ELSE [j \in 1..(s \div LimbBits) |-> 0] \o MulAdd(x, 2 ^ (s % LimbBits), 0)

\* the remainder of (r * LimbBase^(hi-lo+1) + x[lo..hi]) by m, followed by
\* the limbs lo..hi of the quotient; m <= ChunkBase and r < m
RECURSIVE DivRange(_, _, _, _, _)
DivRange(x, m, r, lo, hi) ==
    IF lo = hi \/ r < 0
    THEN <<(r * LimbBase + x[lo]) % m, (r * LimbBase + x[lo]) \div m>>
    ELSE LET mid  == (lo + hi) \div 2
             high == DivRange(x, m, r, mid + 1, hi)
             low  == DivRange(x, m, high[1], lo, mid)
         IN  low \o Tail(high)

\* the result of a division from DivRange's: the quotient, and whether there
\* is a remainder
Quotient(d) == [q |-> Trim(Tail(d)), rest |-> d[1] # 0]

\* x \div 10^k, and whether anything was cut off
RECURSIVE DivPowTen(_, _)

\* a, a division's result, divided by 10^k once more
DivAgain(a, k) == [q |-> DivPowTen(a.q, k).q, rest |-> a.rest \/ DivPowTen(a.q, k).rest]

DivPowTen(x, k) ==
    IF k = 0 \/ x = <<>>
    THEN [q |-> x, rest |-> FALSE]
    ELSE IF k <= ChunkDigits
    THEN Quotient(DivRange(x, 10 ^ k, 0, 1, Len(x)))
    ELSE DivAgain(DivPowTen(x, k \div 2), k - k \div 2)

\* the number of binary digits of x
BitLen(x) ==
    IF x = <<>> THEN 0
    ELSE LimbBits * (Len(x) - 1)
         + (CHOOSE b \in 1..LimbBits : 2 ^ (b - 1) <= x[Len(x)] /\ x[Len(x)] < 2 ^ b)

\* the binary digit of x worth 2^j
Bit(x, j) ==
    IF j < 0 \/ j \div LimbBits >= Len(x) THEN 0
    ELSE (x[j \div LimbBits + 1] \div 2 ^ (j % LimbBits)) % 2

\* m + 1 for a binary numeral m, highest digit first
Increment(m) ==
    IF \A i \in DOMAIN m : m[i] = 1
    THEN <<1>> \o [i \in DOMAIN m |-> 0]
    ELSE LET z == CHOOSE i \in DOMAIN m : m[i] = 0 /\ \A j \in (i + 1)..Len(m) : m[j] = 1
         IN  [i \in DOMAIN m |-> IF i < z THEN m[i] ELSE IF i = z THEN 1 ELSE 0]

\* a binary numeral with a 1 in it, without its low zeros
StripLowZeros(m) ==
    SubSeq(m, 1, CHOOSE i \in DOMAIN m : m[i] = 1 /\ \A j \in (i + 1)..Len(m) : m[j] = 0)

\* float64: 53 binary digits of precision, the lowest one worth at least
\* 2^-1074, the highest one worth at most 2^1023
MantissaBits == 53
MinExponent == -1074
MaxExponent == 1023

\* how many low binary digits of a number of len digits, worth 2^-s each,
\* a float64 has no room for
Dropped(len, s) ==
    IF len - MantissaBits > s + MinExponent THEN len - MantissaBits ELSE s + MinExponent

\* the binary digits of q from the one worth 2^drop up, highest first
Kept(q, drop) == [i \in 1..(BitLen(q) - drop) |-> Bit(q, BitLen(q) - i)]

\* round to nearest, ties to even: up when the dropped digits are more than
\* half of the last kept one, or half of it and the last kept one is odd
RoundsUp(q, rest, drop, kept) ==
    /\ Bit(q, drop - 1) = 1
    /\ \/ rest
       \/ \E j \in 0..(drop - 2) : Bit(q, j) = 1
       \/ (kept # <<>> /\ kept[Len(kept)] = 1)

\* The float64 with the binary digits m, the lowest one worth 2^e: a range
\* error from 2^1024 on.  The value is the numeral without its low zeros and
\* the exponent of its highest digit, the same for equal float64s only.
Float64(m, e) ==
    IF m = <<>> THEN [ok |-> TRUE, value |-> [exp |-> 0, mant |-> <<>>]]
    ELSE IF Len(m) - 1 + e > MaxExponent THEN [ok |-> FALSE, value |-> <<>>]
    ELSE [ok |-> TRUE, value |-> [exp |-> Len(m) - 1 + e, mant |-> StripLowZeros(m)]]

Round(q, rest, drop, kept, s) ==
    Float64(IF RoundsUp(q, rest, drop, kept) THEN Increment(kept) ELSE kept, drop - s)

RoundQuotient(q, rest, drop, s) == Round(q, rest, drop, Kept(q, drop), s)

\* d, the whole part of n * 2^s / 10^k and whether there is more, rounded
RoundScaled(d, s) == RoundQuotient(d.q, d.rest, Dropped(BitLen(d.q), s), s)

\* The float64 nearest to n / 10^k, for n # <<>>.  n / 10^k >= 10^-k > 2^-(4k),
\* so the whole part of n * 2^(4k+64) / 10^k has 65 binary digits or more,
\* enough to round from.
RoundToFloat64(n, k) == RoundScaled(DivPowTen(ShiftLeft(n, 4 * k + 64), k), 4 * k + 64)

\* the float64 nearest to n / 10^k
NearestFloat64(n, k) ==
    IF n = <<>> THEN [ok |-> TRUE, value |-> [exp |-> 0, mant |-> <<>>]] ELSE RoundToFloat64(n, k)

\* strconv.ParseFloat(lit, 64) on digits [ "." digits ]: the float64 nearest
\* to the numeral, or a range error when that would be 2^1024 or more
ParseFloat(lit) ==
    LET dot == IF Contains(lit, ".") THEN CHOOSE i \in 1..Len(lit) : lit[i] = "." ELSE Len(lit) + 1
        ip  == SubSeq(lit, 1, dot - 1)
        fp  == SubSeq(lit, dot + 1, Len(lit))
    IN  IF (ip = <<>> /\ fp = <<>>) \/ \E i \in 1..Len(lit) : i # dot /\ ~isDigit(lit[i])
        THEN [ok |-> FALSE, value |-> <<>>]
        ELSE NearestFloat64(FromDigits(ip \o fp), Len(fp))

-----------------------------------------------------------------------------
(* parser.go.  A parse function takes the Parser object and returns the    *)
(* Parser object after the call together with what the call returned.      *)

Ret(q, n) == [p |-> q, node |-> n]

\* A call of one of the methods below from another method goes through
\* Call, which is the recursion of the parser: p_nextToken(q) is p.nextToken()
\* on the Parser object q, and so on; each returns what the method's
\* definition further down returns.  The parser's call of strconv.ParseFloat
\* goes the same way.
RECURSIVE Call(_, _, _)

p_nextToken(q) == Call("nextToken", q, "")

p_expectPeek(q, t) == Call("expectPeek", q, t)

p_parseExpression(q, precedence) == Call("parseExpression", q, precedence)

p_parseStatement(q) == Call("parseStatement", q, "")

p_parseBlockStatement(q) == Call("parseBlockStatement", q, "")

p_parseParameter(q) == Call("parseParameter", q, "")

p_parseCondition(q) == Call("parseCondition", q, "")

p_parseBody(q) == Call("parseBody", q, "")

\* strconv.ParseFloat(lit, 64), as the parser calls it
strconv_ParseFloat(lit) == Call("ParseFloat", <<>>, lit)

\* nextToken that pulls two tokens from the lexer and drops the first
nextTokenSkipping(q) ==
    LET r == NextToken(NextToken(q.lexer).l)
    IN  [q EXCEPT !.curToken = q.peekToken,
                  !.peekToken = q.peekPeek,
                  !.peekPeek = r.tok,
                  !.lexer = r.l]

nextToken(q) ==
    LET r == NextToken(q.lexer)
    IN  [q EXCEPT !.curToken = q.peekToken,
                  !.peekToken = q.peekPeek,
                  !.peekPeek = r.tok,
                  !.lexer = r.l]

NewParser(l) ==
    p_nextToken(p_nextToken(p_nextToken(
        [lexer |-> l, curToken |-> ZeroToken, peekToken |-> ZeroToken,
         peekPeek |-> ZeroToken, errors |-> <<>>])))

addError(q, msg) == [q EXCEPT !.errors = Append(@, msg)]

\* expectPeek that steps to the next token also when it is not the expected one
expectPeekAdvancing(q, t) ==
    IF q.peekToken.Type = t
    THEN [p |-> p_nextToken(q), ok |-> TRUE]
    ELSE [p |-> p_nextToken(addError(q, "expected next token to be " \o t \o ", got "
                                        \o q.peekToken.Type \o " instead")),
          ok |-> FALSE]

expectPeek(q, t) ==
    IF q.peekToken.Type = t
    THEN [p |-> p_nextToken(q), ok |-> TRUE]
    ELSE [p |-> addError(q, "expected next token to be " \o t \o ", got "
                            \o q.peekToken.Type \o " instead"),
          ok |-> FALSE]

peekPrecedence(q) ==
    IF q.peekToken.Type \in DOMAIN precedences
    THEN precedences[q.peekToken.Type] ELSE LOWEST

curPrecedence(q) ==
    IF q.curToken.Type \in DOMAIN precedences
    THEN precedences[q.curToken.Type] ELSE LOWEST

RECURSIVE skipWhitespaceTokens(_)
skipWhitespaceTokens(q) ==
    IF q.curToken.Type = ILLEGAL /\ q.curToken.Literal = <<>>
    THEN LET q2 == p_nextToken(q)
         IN  IF q2.curToken.Type = EOF THEN q2 ELSE skipWhitespaceTokens(q2)
    ELSE q

parseBooleanLiteral(q) ==
    Ret(q, [node |-> "BooleanLiteral", Token |-> q.curToken,
            Value |-> Str(q.curToken.Literal) = "true"])

\* `case INT:` of parsePrefixExpression
parseIntegerLiteral(q) ==
    LET v == ParseInt(q.curToken.Literal)
    IN  IF ~v.ok
        THEN Ret(addError(q, "could not parse \"" \o Str(q.curToken.Literal) \o "\" as integer"), Nil)
        ELSE Ret(q, [node |-> "IntegerLiteral", Token |-> q.curToken, Value |-> v.value])

\* `case FLOAT:` of parsePrefixExpression
parseFloatCase(q) ==
    LET v == strconv_ParseFloat(q.curToken.Literal)
    IN  IF ~v.ok
        THEN Ret(addError(q, "could not parse \"" \o Str(q.curToken.Literal) \o "\" as float"), Nil)
        ELSE Ret(p_nextToken(q), [node |-> "FloatLiteral", Token |-> q.curToken, Value |-> v.value])

\* `case LPAREN:` of parsePrefixExpression
parseGroupedExpression(q) ==
    LET r == p_parseExpression(p_nextToken(q), LOWEST)
        e == p_expectPeek(r.p, RPAREN)
    IN  IF ~e.ok THEN Ret(e.p, Nil) ELSE Ret(e.p, r.node)

parsePrefixOperatorExpression(q) ==
    LET r == p_parseExpression(p_nextToken(q), PREFIX)
    IN  Ret(r.p, PrefixExpression(q.curToken, r.node))

parseTypeofExpression(q) ==
    LET e1 == p_expectPeek(q, LPAREN)
        r  == p_parseExpression(p_nextToken(e1.p), LOWEST)
        e2 == p_expectPeek(r.p, RPAREN)
    IN  IF ~e1.ok THEN Ret(e1.p, Nil)
        ELSE IF ~e2.ok THEN Ret(e2.p, Nil)
        ELSE Ret(e2.p, [node |-> "TypeOfExpression", Token |-> q.curToken, Expr |-> r.node])

parsePrefixExpression(q0) ==
    LET q == skipWhitespaceTokens(q0)
        t == q.curToken.Type
    IN  CASE t = VOID -> Ret(q, [node |-> "VoidLiteral", Token |-> q.curToken])
          [] t = IDENT -> Ret(q, Identifier(q.curToken))
          [] t = INT -> parseIntegerLiteral(q)
          [] t = BOOL -> parseBooleanLiteral(q)
          [] t = NIL -> Ret(q, [node |-> "NilLiteral", Token |-> q.curToken])
          [] t = STRING_T -> Ret(q, [node |-> "StringLiteral", Token |-> q.curToken,
                                     Value |-> q.curToken.Literal])
          [] t = FLOAT -> parseFloatCase(q)
          [] t = LPAREN -> parseGroupedExpression(q)
          [] t \in {SUB, ADD} -> parsePrefixOperatorExpression(q)
          [] t = TYPEOF -> parseTypeofExpression(q)
          [] OTHER ->
               IF t # EOF
               THEN Ret(addError(q, "no prefix parse function for " \o t \o " found"), Nil)
               ELSE Ret(q, Nil)

\* the right operand parsed one level lower, which makes every operator
\* right-associative
parseInfixExpressionRightAssoc(q, left) ==
    LET precedence == curPrecedence(q) - 1
        r == p_parseExpression(p_nextToken(q), precedence)
    IN  Ret(r.p, InfixExpression(q.curToken, left, r.node))

parseInfixExpression(q, left) ==
    LET precedence == curPrecedence(q)
        r == p_parseExpression(p_nextToken(q), precedence)
    IN  Ret(r.p, InfixExpression(q.curToken, left, r.node))

\* the condition of the infix loop of parseExpression
parseExpressionCond(q, precedence) ==
    /\ q.peekToken.Type # SEMICOLON
    /\ precedence < peekPrecedence(q)
    /\ q.peekToken.Type # EOF

\* one iteration of the infix loop: p.nextToken(); leftExp = p.parseInfixExpression(leftExp)
parseExpressionIteration(q, leftExp) ==
    parseInfixExpression(p_nextToken(q), leftExp)

RECURSIVE parseExpressionLoop(_, _, _)
\* the infix loop of parseExpression
parseExpressionLoop(q, precedence, leftExp) ==
    IF parseExpressionCond(q, precedence)
    THEN LET r == parseExpressionIteration(q, leftExp)
         IN  IF IsNil(r.node) THEN Ret(r.p, Nil)
             ELSE parseExpressionLoop(r.p, precedence, r.node)
    ELSE Ret(q, leftExp)

parseExpression(q, precedence) ==
    LET r == parsePrefixExpression(q)
    IN  IF IsNil(r.node) THEN Ret(r.p, Nil)
        ELSE parseExpressionLoop(r.p, precedence, r.node)

\* `if p.peekToken.Type == SEMICOLON { p.nextToken() }`
skipSemicolon(q) == IF q.peekToken.Type = SEMICOLON THEN p_nextToken(q) ELSE q

parseReturnStatement(q) ==
    IF q.peekToken.Type = SEMICOLON
    THEN Ret(p_nextToken(q), [node |-> "ReturnStatement", Token |-> q.curToken, ReturnValue |-> Nil])
    ELSE IF q.peekToken.Type = RBRACE
    THEN Ret(q, [node |-> "ReturnStatement", Token |-> q.curToken, ReturnValue |-> Nil])
    ELSE LET r == p_parseExpression(p_nextToken(q), LOWEST)
         IN  Ret(skipSemicolon(r.p),
                 [node |-> "ReturnStatement", Token |-> q.curToken, ReturnValue |-> r.node])

parseBreakStatement(q) ==
    Ret(skipSemicolon(q), [node |-> "BreakStatement", Token |-> q.curToken])

parseContinueStatement(q) ==
    Ret(skipSemicolon(q), [node |-> "ContinueStatement", Token |-> q.curToken])

curTokenIs(q, t) == q.curToken.Type = t

\* the condition of the statement loop of parseBlockStatement
parseBlockStatementCond(q) == ~curTokenIs(q, RBRACE) /\ ~curTokenIs(q, EOF)

\* one iteration of the statement loop: parseStatement, append, p.nextToken()
parseBlockStatementIteration(q, stmts) ==
    LET r == p_parseStatement(q)
    IN  [p |-> p_nextToken(r.p),
         stmts |-> IF ~IsNil(r.node) THEN Append(stmts, r.node) ELSE stmts]

RECURSIVE parseBlockStatementLoop(_, _)
\* the statement loop of parseBlockStatement
parseBlockStatementLoop(q, stmts) ==
    IF parseBlockStatementCond(q)
    THEN LET r == parseBlockStatementIteration(q, stmts)
         IN  parseBlockStatementLoop(r.p, r.stmts)
    ELSE [p |-> q, stmts |-> stmts]

parseBlockStatement(q) ==
    LET r == parseBlockStatementLoop(p_nextToken(q), <<>>)
    IN  Ret(r.p, BlockStatement(q.curToken, r.stmts))

\* `default:` of parseStatement
parseExpressionStatement(q) ==
    LET r == p_parseExpression(q, LOWEST)
    IN  IF ~IsNil(r.node)
        THEN Ret(skipSemicolon(r.p),
                 [node |-> "ExpressionStatement", Token |-> r.p.curToken, Expression |-> r.node])
        ELSE IF r.p.curToken.Type # EOF
        THEN Ret(addError(r.p, "unexpected token: " \o Str(r.p.curToken.Literal)), Nil)
        ELSE Ret(r.p, Nil)

parseDeclarationStatement(q) ==
    IF q.curToken.Type # TYPE /\ q.curToken.Type # VOID
    THEN Ret(addError(q, "expected type, got " \o q.curToken.Type), NilPtr("VariableDeclaration"))
    ELSE LET e1 == p_expectPeek(q, IDENT)
             e2 == p_expectPeek(e1.p, ASSIGN)
             r  == p_parseExpression(p_nextToken(e2.p), LOWEST)
         IN  IF ~e1.ok THEN Ret(e1.p, NilPtr("VariableDeclaration"))
             ELSE IF ~e2.ok THEN Ret(e2.p, NilPtr("VariableDeclaration"))
             ELSE Ret(skipSemicolon(r.p),
                      [node |-> "VariableDeclaration", Token |-> q.curToken,
                       Name |-> Identifier(e1.p.curToken), Value |-> r.node])

parseWhileStatement(q) ==
    LET e1 == p_expectPeek(q, LPAREN)
        r  == p_parseExpression(p_nextToken(e1.p), LOWEST)
        e2 == p_expectPeek(r.p, RPAREN)
        e3 == p_expectPeek(e2.p, LBRACE)
        b  == p_parseBlockStatement(e3.p)
        no == NilPtr("WhileStatement")
    IN  IF ~e1.ok THEN Ret(addError(e1.p, "expected '(' after 'while'"), no)
        ELSE IF IsNil(r.node) THEN Ret(r.p, no)
        ELSE IF ~e2.ok THEN Ret(addError(e2.p, "expected ')' after while condition"), no)
        ELSE IF ~e3.ok THEN Ret(addError(e3.p, "expected '{' after while condition"), no)
        ELSE Ret(b.p, [node |-> "WhileStatement", Token |-> q.curToken,
                       Condition |-> r.node, Block |-> b.node])

parseLoopStatement(q) ==
    LET e == p_expectPeek(q, LBRACE)
        b == p_parseBlockStatement(e.p)
    IN  IF ~e.ok THEN Ret(addError(e.p, "expected '{' after 'loop'"), NilPtr("LoopStatement"))
        ELSE Ret(b.p, [node |-> "LoopStatement", Token |-> q.curToken, Block |-> b.node])

parseForStatement(q) ==
    LET e1 == p_expectPeek(q, LPAREN)
        e2 == p_expectPeek(e1.p, IDENT)
        e3 == p_expectPeek(e2.p, IN_KW)
        r  == p_parseExpression(p_nextToken(e3.p), LOWEST)
        e4 == p_expectPeek(r.p, RPAREN)
        e5 == p_expectPeek(e4.p, LBRACE)
        b  == p_parseBlockStatement(e5.p)
        no == NilPtr("ForStatement")
    IN  IF ~e1.ok THEN Ret(addError(e1.p, "expected '(' after 'for'"), no)
        ELSE IF ~e2.ok
        THEN Ret(addError(e2.p, "expected identifier after '(' in for statement"), no)
        ELSE IF ~e3.ok
        THEN Ret(addError(e3.p, "expected 'in' after identifier in for statement"), no)
        ELSE IF IsNil(r.node) THEN Ret(r.p, no)
        ELSE IF ~e4.ok THEN Ret(addError(e4.p, "expected ')' after for loop iterable"), no)
        ELSE IF ~e5.ok THEN Ret(addError(e5.p, "expected '{' after for loop header"), no)
        ELSE Ret(b.p, [node |-> "ForStatement", Token |-> q.curToken,
                       Identifier |-> Identifier(e2.p.curToken),
                       Iterable |-> r.node, Block |-> b.node])

parseParameter(q) ==
    IF q.curToken.Type # TYPE
    THEN Ret(addError(q, "expected parameter type, got " \o q.curToken.Type), NilPtr("Parameter"))
    ELSE LET e == p_expectPeek(q, IDENT)
         IN  IF ~e.ok THEN Ret(e.p, NilPtr("Parameter"))
             ELSE Ret(e.p, [node |-> "Parameter", Type |-> q.curToken,
                            Name |-> Identifier(e.p.curToken)])

\* one iteration of the `for p.peekToken.Type == COMMA` loop:
\* two nextToken calls, parseParameter, append
parseFunctionParametersIteration(q, params) ==
    LET r == p_parseParameter(p_nextToken(p_nextToken(q)))
    IN  [p |-> r.p,
         params |-> IF ~Absent(r.node) THEN Append(params, r.node) ELSE params]

\* the `for p.peekToken.Type == COMMA` loop of parseFunctionParameters
RECURSIVE parseFunctionParametersLoop(_, _)
parseFunctionParametersLoop(q, params) ==
    IF q.peekToken.Type = COMMA
    THEN LET r == parseFunctionParametersIteration(q, params)
         IN  parseFunctionParametersLoop(r.p, r.params)
    ELSE [p |-> q, params |-> params]

\* the empty parameter list returned without the p.nextToken() that consumes `)`
parseFunctionParametersNoConsume(q) ==
    IF q.peekToken.Type = RPAREN
    THEN [p |-> q, params |-> <<>>]
    ELSE LET r == p_parseParameter(p_nextToken(q))
             l == parseFunctionParametersLoop(r.p,
                      IF ~Absent(r.node) THEN <<r.node>> ELSE <<>>)
             e == p_expectPeek(l.p, RPAREN)
         IN  IF ~e.ok THEN [p |-> e.p, params |-> <<>>]
             ELSE [p |-> e.p, params |-> l.params]

\* the parameters are a slice: <<>> is the nil (or empty) slice
parseFunctionParameters(q) ==
    IF q.peekToken.Type = RPAREN
    THEN [p |-> p_nextToken(q), params |-> <<>>]
    ELSE LET r == p_parseParameter(p_nextToken(q))
             l == parseFunctionParametersLoop(r.p,
                      IF ~Absent(r.node) THEN <<r.node>> ELSE <<>>)
             e == p_expectPeek(l.p, RPAREN)
         IN  IF ~e.ok THEN [p |-> e.p, params |-> <<>>]
             ELSE [p |-> e.p, params |-> l.params]

parseFunctionStatement(q) ==
    LET returnType == IF q.curToken.Type = FUNC
                      THEN Token(VOID, <<"v","o","i","d">>) ELSE q.curToken
        e1 == p_expectPeek(q, IDENT)
        e2 == p_expectPeek(e1.p, LPAREN)
        ps == parseFunctionParameters(e2.p)
        e3 == p_expectPeek(ps.p, LBRACE)
        b  == p_parseBlockStatement(e3.p)
        no == NilPtr("FunctionStatement")
    IN  IF ~e1.ok THEN Ret(e1.p, no)
        ELSE IF ~e2.ok THEN Ret(e2.p, no)
        ELSE IF ~e3.ok THEN Ret(e3.p, no)
        ELSE Ret(b.p, [node |-> "FunctionStatement", Token |-> q.curToken,
                       Name |-> Identifier(e1.p.curToken), Parameters |-> ps.params,
                       ReturnType |-> returnType, Body |-> b.node])

\* `( condition )` of an if or an else-if: expectPeek(LPAREN), the condition,
\* expectPeek(RPAREN); ok is FALSE where the code returns nil
parseCondition(q) ==
    LET e1 == p_expectPeek(q, LPAREN)
        r  == p_parseExpression(p_nextToken(e1.p), LOWEST)
        e2 == p_expectPeek(r.p, RPAREN)
    IN  IF ~e1.ok THEN [p |-> e1.p, ok |-> FALSE, node |-> Nil]
        ELSE IF IsNil(r.node) THEN [p |-> r.p, ok |-> FALSE, node |-> Nil]
        ELSE IF ~e2.ok THEN [p |-> e2.p, ok |-> FALSE, node |-> Nil]
        ELSE [p |-> e2.p, ok |-> TRUE, node |-> r.node]

\* the body of an if, else-if or else clause: a braced block, or a single
\* statement wrapped in a block; ok is FALSE where the code returns nil
parseBody(q) ==
    IF q.peekToken.Type = LBRACE
    THEN LET e == p_expectPeek(q, LBRACE)
             b == p_parseBlockStatement(e.p)
         IN  IF ~e.ok THEN [p |-> e.p, ok |-> FALSE, node |-> NilPtr("BlockStatement")]
             ELSE [p |-> b.p, ok |-> TRUE, node |-> b.node]
    ELSE LET r == p_parseStatement(p_nextToken(q))
         IN  IF IsNil(r.node)
             THEN [p |-> r.p, ok |-> FALSE, node |-> NilPtr("BlockStatement")]
             ELSE [p |-> r.p, ok |-> TRUE, node |-> BlockStatement(r.p.curToken, <<r.node>>)]

\* one iteration of the `for p.peekToken.Type == ELSE` loop of
\* parseIfStatement; more is FALSE where the code returns or breaks
parseElseClause(q, stmt) ==
    LET q1 == p_nextToken(q)
    IN  IF q1.peekToken.Type = IF_KW
        THEN LET c == p_parseCondition(p_nextToken(q1))
                 b == p_parseBody(c.p)
             IN  IF ~c.ok THEN [p |-> c.p, node |-> NilPtr("IfStatement"), more |-> FALSE]
                 ELSE IF ~b.ok
                 THEN [p |-> b.p, node |-> NilPtr("IfStatement"), more |-> FALSE]
                 ELSE [p |-> b.p, more |-> TRUE,
                       node |-> [stmt EXCEPT !.ElseIfs =
                                    Append(@, [Condition |-> c.node, Block |-> b.node])]]
        ELSE LET b == p_parseBody(q1)
             IN  IF ~b.ok THEN [p |-> b.p, node |-> NilPtr("IfStatement"), more |-> FALSE]
                 ELSE [p |-> b.p, node |-> [stmt EXCEPT !.ElseBlock = b.node],
                       more |-> FALSE]

RECURSIVE parseElseClauses(_, _)
\* the `for p.peekToken.Type == ELSE` loop of parseIfStatement
parseElseClauses(q, stmt) ==
    IF q.peekToken.Type = ELSE_KW
    THEN LET r == parseElseClause(q, stmt)
         IN  IF r.more THEN parseElseClauses(r.p, r.node) ELSE Ret(r.p, r.node)
    ELSE Ret(q, stmt)

parseIfStatement(q) ==
    LET c == p_parseCondition(q)
        b == p_parseBody(c.p)
    IN  IF ~c.ok THEN Ret(c.p, NilPtr("IfStatement"))
        ELSE IF ~b.ok THEN Ret(b.p, NilPtr("IfStatement"))
        ELSE parseElseClauses(b.p,
                 [node |-> "IfStatement", Token |-> q.curToken, Condition |-> c.node,
                  ThenBlock |-> b.node, ElseIfs |-> <<>>,
                  ElseBlock |-> NilPtr("BlockStatement")])

\* `case TYPE, VOID:` without the declaration parse that follows the two tests
\* of the third token
parseTypeCaseNoFallback(q) ==
    IF q.peekToken.Type = IDENT
    THEN IF q.peekPeek.Type = LPAREN THEN parseFunctionStatement(q)
         ELSE IF q.peekPeek.Type = ASSIGN THEN parseDeclarationStatement(q)
         ELSE Ret(q, Nil)
    ELSE Ret(q, Nil)

\* `case TYPE, VOID:` of parseStatement
parseTypeCase(q) ==
    IF q.peekToken.Type = IDENT
    THEN IF q.peekPeek.Type = LPAREN THEN parseFunctionStatement(q)
         ELSE IF q.peekPeek.Type = ASSIGN THEN parseDeclarationStatement(q)
         ELSE parseDeclarationStatement(q)
    ELSE Ret(q, Nil)

parseStatement(q0) ==
    LET q == skipWhitespaceTokens(q0)
        t == q.curToken.Type
    IN  CASE t = IF_KW -> parseIfStatement(q)
          [] t = RETURN -> parseReturnStatement(q)
          [] t = BREAK -> parseBreakStatement(q)
          [] t = CONTINUE -> parseContinueStatement(q)
          [] t = WHILE -> parseWhileStatement(q)
          [] t = LOOP -> parseLoopStatement(q)
          [] t = FOR -> parseForStatement(q)
          [] t = FUNC -> parseFunctionStatement(q)
          [] t \in {TYPE, VOID} -> parseTypeCase(q)
          [] t \in {RBRACE, SEMICOLON, EOF} -> Ret(q, Nil)
          [] OTHER -> parseExpressionStatement(q)

Call(fn, q, arg) ==
    CASE fn = "nextToken" -> nextToken(q)
      [] fn = "expectPeek" -> expectPeek(q, arg)
      [] fn = "parseExpression" -> parseExpression(q, arg)
      [] fn = "parseStatement" -> parseStatement(q)
      [] fn = "parseBlockStatement" -> parseBlockStatement(q)
      [] fn = "parseParameter" -> parseParameter(q)
      [] fn = "parseCondition" -> parseCondition(q)
      [] fn = "parseBody" -> parseBody(q)
      [] fn = "ParseFloat" -> ParseFloat(arg)

-----------------------------------------------------------------------------
(* The source texts the model is run on.  A text is drawn as a sequence of  *)
(* lexemes and handed to NewLexer as their bytes, one space between two     *)
(* lexemes.                                                                 *)

MaxWords == 3
MaxBytes == 3
MaxExtraCalls == 2
MaxElseIfs == 2

kw_int    == <<"i","n","t">>
kw_void   == <<"v","o","i","d">>
kw_string == <<"s","t","r","i","n","g">>
kw_float  == <<"f","l","o","a","t">>
kw_if     == <<"i","f">>
kw_else   == <<"e","l","s","e">>
kw_return == <<"r","e","t","u","r","n">>
id_foo    == <<"f","o","o">>
id_test   == <<"t","e","s","t">>

RECURSIVE Join(_)
Join(ws) ==
    IF ws = <<>> THEN <<>>
    ELSE IF Len(ws) = 1 THEN ws[1]
    ELSE ws[1] \o <<" ">> \o Join(Tail(ws))

RECURSIVE SeqsUpTo(_, _)
SeqsUpTo(S, n) ==
    IF n = 0 THEN {<<>>}
    ELSE LET R == SeqsUpTo(S, n - 1)
         IN  R \cup {Append(r, x) : r \in {t \in R : Len(t) = n - 1}, x \in S}

\* every text of at most MaxWords lexemes of this vocabulary
Vocabulary ==
    {kw_int, id_foo, <<"1">>, <<"(">>, <<")">>, <<"{">>, <<"}">>, <<"=">>, <<";">>,
     <<",">>, <<"&">>, kw_if, kw_else, kw_return}

WordTexts == SeqsUpTo(Vocabulary, MaxWords)

\* every text of at most MaxBytes bytes of this alphabet, as one lexeme
Alphabet == {"a", "1", ".", "\"", " ", "=", "&", ",", NUL}

ByteTexts == {<<b>> : b \in SeqsUpTo(Alphabet, MaxBytes)}

\* sources of main (part_000), each as one lexeme
testCases ==
    {
    <<"i", "n", "t", " ", "f", "n", " ", "m", "a", "i", "n", "(", "i", "n", "t", " ", "x",
      ",", " ", "s", "t", "r", "i", "n", "g", " ", "y", ")", " ", "{", " ", "r", "e", "t",
      "u", "r", "n", " ", "1", "2", "3", " ", "+", " ", "4", " ", "*", " ", "5", ";", " ",
      "}">>,
    <<"i", "n", "t", " ", "f", "u", "n", "c", " ", "m", "a", "i", "n", "(", "i", "n", "t",
      " ", "x", ",", " ", "s", "t", "r", "i", "n", "g", " ", "y", ")", "{", " ", "r", "e",
      "t", "u", "r", "n", " ", "1", "2", "3", " ", "+", " ", "4", " ", "*", " ", "5", ";",
      " ", "}">>,
    <<"i", "n", "t", " ", "m", "a", "i", "n", "(", "i", "n", "t", " ", "x", ",", " ", "s",
      "t", "r", "i", "n", "g", " ", "y", ")", " ", "{", " ", "r", "e", "t", "u", "r", "n",
      " ", "1", "2", "3", " ", "+", " ", "4", " ", "*", " ", "5", ";", " ", "}">>,
    <<"v", "o", "i", "d", " ", "t", "e", "s", "t", "(", ")", " ", "{", " ", "r", "e", "t",
      "u", "r", "n", ";", " ", "}">>,
    <<"f", "l", "o", "a", "t", " ", "c", "a", "l", "c", "u", "l", "a", "t", "e", "(", "i",
      "n", "t", " ", "a", ",", " ", "f", "l", "o", "a", "t", " ", "b", ",", " ", "s", "t",
      "r", "i", "n", "g", " ", "n", "a", "m", "e", ")", " ", "{", " ", "r", "e", "t", "u",
      "r", "n", " ", "a", " ", "+", " ", "b", " ", "*", " ", "-", "3", ";", " ", "}">>,
    <<"i", "n", "t", " ", "t", "e", "s", "t", "(", ")", " ", "{", " ", "r", "e", "t", "u",
      "r", "n", " ", "t", "y", "p", "e", "o", "f", "(", "4", "2", ")", ";", " ", "}">>,
    <<"v", "o", "i", "d", " ", "d", "e", "m", "o", "(", ")", " ", "{", " ", "r", "e", "t",
      "u", "r", "n", " ", "t", "y", "p", "e", "o", "f", "(", "x", " ", "+", " ", "y", " ",
      "*", " ", "2", ")", ";", " ", "}">>,
    <<"v", "o", "i", "d", " ", "t", "e", "s", "t", "I", "f", "(", ")", " ", "{", " ", "i",
      "f", " ", "(", "x", " ", ">", " ", "1", "0", ")", " ", "{", " ", "r", "e", "t", "u",
      "r", "n", " ", "x", ";", " ", "}", " ", "}">>,
    <<"v", "o", "i", "d", " ", "t", "e", "s", "t", "I", "f", "E", "l", "s", "e", "(", ")",
      " ", "{", " ", "i", "f", " ", "(", "x", " ", ">", " ", "1", "0", ")", " ", "{", " ",
      "r", "e", "t", "u", "r", "n", " ", "x", ";", " ", "}", " ", "e", "l", "s", "e", " ",
      "{", " ", "r", "e", "t", "u", "r", "n", " ", "0", ";", " ", "}", " ", "}">>,
    <<"v", "o", "i", "d", " ", "t", "e", "s", "t", "E", "l", "s", "e", "I", "f", "(", ")",
      " ", "{", " ", "i", "f", " ", "(", "x", " ", ">", " ", "1", "0", ")", " ", "{", " ",
      "r", "e", "t", "u", "r", "n", " ", "x", ";", " ", "}", " ", "e", "l", "s", "e", " ",
      "i", "f", " ", "(", "x", " ", ">", " ", "5", ")", " ", "{", " ", "r", "e", "t", "u",
      "r", "n", " ", "x", " ", "+", " ", "1", ";", " ", "}", " ", "e", "l", "s", "e", " ",
      "{", " ", "r", "e", "t", "u", "r", "n", " ", "0", ";", " ", "}", " ", "}">>,
    <<"v", "o", "i", "d", " ", "t", "e", "s", "t", "N", "o", "B", "r", "a", "c", "e", "s",
      "(", ")", " ", "{", " ", "i", "f", " ", "(", "x", " ", ">", " ", "1", "0", ")", " ",
      "r", "e", "t", "u", "r", "n", " ", "x", ";", " ", "e", "l", "s", "e", " ", "r", "e",
      "t", "u", "r", "n", " ", "0", ";", " ", "}">>,
    <<"v", "o", "i", "d", " ", "t", "e", "s", "t", "D", "e", "c", "l", "a", "r", "a", "t",
      "i", "o", "n", "(", ")", " ", "{", " ", "i", "n", "t", " ", "x", " ", "=", " ", "1",
      "0", ";", " ", "r", "e", "t", "u", "r", "n", " ", "x", ";", " ", "}">>,
    <<"v", "o", "i", "d", " ", "t", "e", "s", "t", "L", "o", "o", "p", "(", ")", " ", "{",
      " ", "l", "o", "o", "p", " ", "{", " ", "r", "e", "t", "u", "r", "n", " ", "1", ";",
      " ", "}", " ", "}">>,
    <<"v", "o", "i", "d", " ", "t", "e", "s", "t", "W", "h", "i", "l", "e", "(", ")", " ",
      "{", " ", "w", "h", "i", "l", "e", " ", "(", "x", " ", "<", " ", "1", "0", ")", " ",
      "{", " ", "r", "e", "t", "u", "r", "n", " ", "x", ";", " ", "}", " ", "}">>,
    <<"v", "o", "i", "d", " ", "t", "e", "s", "t", "F", "o", "r", "(", ")", " ", "{", " ",
      "f", "o", "r", " ", "(", "i", "t", "e", "m", " ", "i", "n", " ", "i", "t", "e", "m",
      "s", ")", " ", "{", " ", "r", "e", "t", "u", "r", "n", " ", "i", "t", "e", "m", ";",
      " ", "}", " ", "}">>,
    <<"s", "t", "r", "i", "n", "g", " ", "g", "r", "e", "e", "t", "(", "s", "t", "r", "i",
      "n", "g", " ", "n", "a", "m", "e", ")", " ", "{", " ", "r", "e", "t", "u", "r", "n",
      " ", "\"", "H", "e", "l", "l", "o", ",", " ", "\"", " ", "+", " ", "n", "a", "m",
      "e", ";", " ", "}">>,
    <<"f", "l", "o", "a", "t", " ", "a", "d", "d", "F", "l", "o", "a", "t", "s", "(", "f",
      "l", "o", "a", "t", " ", "a", ",", " ", "f", "l", "o", "a", "t", " ", "b", ")", " ",
      "{", " ", "r", "e", "t", "u", "r", "n", " ", "a", " ", "+", " ", "b", ";", " ", "}">>,
    <<"s", "t", "r", "i", "n", "g", " ", "e", "m", "p", "t", "y", "S", "t", "r", "i", "n",
      "g", "(", ")", " ", "{", " ", "r", "e", "t", "u", "r", "n", " ", "\"", "\"", ";",
      " ", "}">>,
    <<"f", "l", "o", "a", "t", " ", "n", "e", "g", "a", "t", "i", "v", "e", "F", "l", "o",
      "a", "t", "(", ")", " ", "{", " ", "r", "e", "t", "u", "r", "n", " ", "-", "3", ".",
      "1", "4", ";", " ", "}">>,
    <<"v", "o", "i", "d", " ", "r", "e", "t", "u", "r", "n", "S", "t", "r", "i", "n", "g",
      "V", "o", "i", "d", "(", ")", " ", "{", " ", "r", "e", "t", "u", "r", "n", " ", "\"",
      "n", "o", "t", " ", "r", "e", "a", "l", "l", "y", " ", "v", "o", "i", "d", "\"", ";",
      " ", "}">>
    }

TestTexts == {<<t>> : t \in testCases}

\* the binary operators of the precedence table that the language writes
\* between two operands, and the two comparisons written with two bytes
BinaryOperators ==
    {<<"+">>, <<"-">>, <<"*">>, <<"/">>, <<"%">>, <<"=","=">>, <<"!","=">>,
     <<"<">>, <<">">>, <<"&","&">>, <<"|","|">>}

Comparisons == {<<"<">>, <<">">>, <<"<","=">>, <<">","=">>}

\* a op1 b op2 c
ChainTexts ==
    {<<a, op1, b, op2, c>> : a \in {<<"a">>, <<"1">>}, b \in {<<"b">>, <<"2">>},
                             c \in {<<"c">>, <<"3">>},
                             op1 \in BinaryOperators, op2 \in BinaryOperators}

\* a op b for the four comparisons
CompareTexts ==
    {<<a, op, b>> : a \in {<<"a">>, <<"1">>}, b \in {<<"b">>, <<"2">>},
                    op \in Comparisons}

\* T name X tail: a type, an identifier, a third lexeme and a rest
TypeWords == {kw_int, kw_void, kw_string, kw_float}

ThirdWords ==
    Vocabulary \cup {<<"+">>, <<"=","=">>, <<"1",".","5">>, <<"\"","a","\"">>}

DeclTails ==
    {<<>>, <<<<")">>, <<"{">>, <<"}">>>>, <<<<"1">>, <<";">>>>,
     <<kw_int, <<"a">>, <<")">>, <<"{">>, <<"}">>>>}

DeclTexts ==
    {<<T, n, x>> \o tail : T \in TypeWords, n \in {id_foo}, x \in ThirdWords,
                           tail \in DeclTails}

\* T name() { return; }
ReturnTexts ==
    {<<T, n \o <<"(", ")">>, <<"{">>, kw_return \o <<";">>, <<"}">>>> :
        T \in TypeWords, n \in {id_foo, id_test}}

\* an if header that is malformed in one place, with its body
MalformedIfs ==
    {<<kw_if, <<"a">>, <<")">>, <<"{">>, <<"1">>, <<"}">>>>,
     <<kw_if, <<"(">>, <<"a">>, <<"{">>, <<"1">>, <<"}">>>>,
     <<kw_if, <<"(">>, <<")">>, <<"{">>, <<"1">>, <<"}">>>>,
     <<kw_if, <<"(">>, <<"a">>, <<")">>, <<")">>, <<"{">>, <<"1">>, <<"}">>>>}

TwoIfTexts == {i1 \o i2 : i1 \in MalformedIfs, i2 \in MalformedIfs}

\* if (a) body, then at most MaxElseIfs times `else if (c) body`, then
\* nothing, a plain else, or a plain else with a further else after it
IfConditions == {<<<<"(">>, <<"b">>, <<")">>>>, <<<<"(">>, <<"c">>, <<"<">>, <<"1">>, <<")">>>>}

IfBodies == {<<<<"{">>, <<"1">>, <<"}">>>>, <<<<"{">>, <<"2",".","5">>, <<"}">>>>}

ElseIfClause == {<<kw_else, kw_if>> \o c \o b : c \in IfConditions, b \in IfBodies}

RECURSIVE ElseIfChains(_)
ElseIfChains(n) ==
    IF n = 0 THEN {<<>>}
    ELSE LET R == ElseIfChains(n - 1)
         IN  R \cup {r \o cl : r \in R, cl \in ElseIfClause}

ElseTails ==
    {<<>>} \cup {<<kw_else>> \o b : b \in IfBodies}
           \cup {<<kw_else, <<"{">>, <<"1">>, <<"}">>, kw_else, <<"{">>, <<"3">>, <<"}">>>>,
                 <<kw_else, <<"{">>, <<"1">>, <<"}">>, kw_else, kw_if,
                   <<"(">>, <<"d">>, <<")">>, <<"{">>, <<"3">>, <<"}">>>>}

IfChainTexts ==
    {<<kw_if, <<"(">>, <<"a">>, <<")">>>> \o b \o ch \o t :
        b \in IfBodies, ch \in ElseIfChains(MaxElseIfs), t \in ElseTails}

\* an operator or a declaration whose operand is missing: a op, op, T x =,
\* at the end of the input or before a token that starts no expression
PrefixOperators == {<<"-">>, <<"!">>}

OperandTails == {<<>>, <<<<";">>>>, <<<<")">>>>, <<<<"}">>, <<"b">>>>}

MissingOperandTexts ==
    {<<a, op>> \o t : a \in {<<"a">>, <<"1">>}, op \in BinaryOperators, t \in OperandTails}
    \cup {<<op>> \o t : op \in PrefixOperators, t \in OperandTails \cup {<<<<"a">>>>}}
    \cup {<<T, <<"x">>, <<"=">>>> \o t : T \in TypeWords, t \in OperandTails \cup {<<<<"1">>>>}}

\* numerals as the lexer's number grammar admits them, digits [ "." digits ]:
\* within the range of int64 or float64, and integers beyond int64
Int64Numbers ==
    {<<"0">>, <<"0","0","7">>, <<"4","2">>, MaxInt64, <<"0","0">> \o MaxInt64,
     <<"9","2","2","3","3","7","2","0","3","6","8","5","4","7","7","5","7","9","9">>}

FloatNumbers ==
    {<<"1",".","5">>, <<"1",".">>, <<"0",".","2","5">>, <<"0","0","7",".","0">>,
     MaxInt64 \o <<"9",".","5">>}

OverflowNumbers ==
    {<<"9","2","2","3","3","7","2","0","3","6","8","5","4","7","7","5","8","0","8">>,
     <<"9","2","2","3","3","7","2","0","3","6","8","5","4","7","7","5","8","1","0">>,
     <<"9","3","0","0","0","0","0","0","0","0","0","0","0","0","0","0","0","0","0">>,
     MaxInt64 \o <<"0">>, <<"0">> \o MaxInt64 \o <<"9">>}

Numbers == Int64Numbers \cup FloatNumbers \cup OverflowNumbers

NumberTexts ==
    {<<n>> : n \in Numbers}
    \cup {<<n, <<"+">>, <<"1">>>> : n \in Numbers}
    \cup {<<kw_int, <<"x">>, <<"=">>, n, <<";">>>> : n \in Numbers}
    \cup {<<kw_return, n, <<";">>, <<"2">>>> : n \in Numbers}

\* if (a) S else T and if (a) S else if (b) S2 else T, with single statements
\* of every kind for bodies, each with and without its semicolon
kw_break == <<"b","r","e","a","k">>

kw_continue == <<"c","o","n","t","i","n","u","e">>

kw_while == <<"w","h","i","l","e">>

kw_loop == <<"l","o","o","p">>

BareStatements ==
    {<<<<"x">>>>, <<<<"7">>>>, <<<<"x">>, <<"+">>, <<"7">>>>, <<<<"1",".","5">>>>,
     <<kw_return, <<"x">>>>, <<kw_return>>, <<kw_break>>, <<kw_continue>>,
     <<kw_int, <<"x">>, <<"=">>, <<"7">>>>}

SingleStatements ==
    BareStatements \cup {st \o <<<<";">>>> : st \in BareStatements}
    \cup {<<kw_while, <<"(">>, <<"c">>, <<")">>, <<"{">>, <<"d">>, <<"}">>>>,
          <<kw_loop, <<"{">>, <<"d">>, <<"}">>>>}

IfHead == <<kw_if, <<"(">>, <<"a">>, <<")">>>>

ElseIfHead == <<kw_else, kw_if, <<"(">>, <<"b">>, <<")">>>>

UnbracedElseTexts ==
    {IfHead \o st \o <<kw_else>> \o t : st \in SingleStatements, t \in SingleStatements}

UnbracedElseIfTexts ==
    {IfHead \o st \o ElseIfHead \o s2 \o <<kw_else>> \o t :
        st \in {<<<<"x">>, <<";">>>>, <<kw_return, <<"x">>>>}, s2 \in SingleStatements,
        t \in {<<<<"y">>>>, <<kw_return, <<"y">>, <<";">>>>}}

UnbracedTexts == UnbracedElseTexts \cup UnbracedElseIfTexts

\* { body } tail: a block, and what follows its closing brace
BlockBodies ==
    {<<>>, <<<<";">>>>, <<<<"x">>>>, <<<<"x">>, <<";">>>>, <<<<"x">>, <<";">>, <<"y">>>>,
     <<kw_return>>, <<kw_return, <<"x">>>>, <<kw_break>>,
     <<kw_int, <<"x">>, <<"=">>, <<"7">>, <<";">>>>,
     <<<<"1",".","5">>>>, <<<<"1",".","5">>, <<";">>>>,
     <<<<"x">>, <<"+">>>>, <<<<"-">>>>, <<kw_int, <<"x">>, <<"=">>>>, <<kw_if, <<"(">>>>,
     <<kw_int>>, <<kw_if, <<"(">>, <<"x">>, <<")">>, <<"{">>, <<"y">>, <<"}">>>>,
     <<kw_loop, <<"{">>, <<"y">>, <<";">>, <<"}">>, <<"x">>>>}

BlockTails == {<<>>, <<<<"z">>>>, <<<<";">>, <<"z">>, <<"}">>>>, <<kw_else, <<"z">>>>}

BlockTexts ==
    {<<<<"{">>>> \o b \o <<<<"}">>>> \o t : b \in BlockBodies, t \in BlockTails}
    \cup {<<<<"{">>>> \o b : b \in BlockBodies}

\* every text of at most MaxBytes bytes over a letter and four bytes from 0x80
\* on: the Latin-1 letters 0xE9 and 0xC3, and 0xA9 and 0xD7, which are none
Latin1Alphabet == {"a", "é", "Ã", "©", "×"}

Latin1Texts == {<<b>> : b \in SeqsUpTo(Latin1Alphabet, MaxBytes)}

Texts ==
    WordTexts \cup ByteTexts \cup TestTexts \cup ChainTexts \cup CompareTexts
              \cup DeclTexts \cup ReturnTexts \cup TwoIfTexts \cup IfChainTexts
              \cup MissingOperandTexts \cup NumberTexts \cup UnbracedTexts
              \cup BlockTexts \cup Latin1Texts

-----------------------------------------------------------------------------
(* The state machine: main's three ways of using a lexer *)

NoParser ==
    [lexer |-> NilPtr("Lexer"), curToken |-> ZeroToken, peekToken |-> ZeroToken,
     peekPeek |-> ZeroToken, errors |-> <<>>]

NoCall == [call |-> "none", start |-> NoParser, node |-> Nil]

Init ==
    /\ words \in Texts
    /\ pc = "new"
    /\ lexer = NewLexer(Join(words))
    /\ tok = ZeroToken
    /\ p = NoParser
    /\ program = <<>>
    /\ last = NoCall

\* demoLexer: one NextToken call on the lexer (the demo stops at the first EOF;
\* here the caller may go on for MaxExtraCalls calls past the end of the input)
LexNextToken ==
    /\ pc \in {"new", "lex"}
    /\ lexer.position < Len(lexer.input) + MaxExtraCalls
    /\ LET r == NextToken(lexer)
       IN  /\ lexer' = r.l
           /\ tok' = r.tok
    /\ pc' = "lex"
    /\ UNCHANGED <<words, p, program, last>>

\* parser := NewParser(lexer)
CallNewParser ==
    /\ pc = "new"
    /\ p' = NewParser(lexer)
    /\ lexer' = p'.lexer
    /\ pc' = "ready"
    /\ UNCHANGED <<words, tok, program, last>>

\* the loop of ParseProgram without the p.nextToken() that ends an iteration
ParseProgramIterationNoAdvance ==
    /\ pc \in {"ready", "parse"}
    /\ p.curToken.Type # EOF
    /\ LET q == skipWhitespaceTokens(p)
           r == p_parseStatement(q)
       IN  IF q.curToken.Type = EOF
           THEN /\ p' = q
                /\ pc' = "done"
                /\ UNCHANGED <<program, last>>
           ELSE /\ p' = r.p
                /\ program' = IF ~IsNil(r.node) THEN Append(program, r.node) ELSE program
                /\ last' = [call |-> "parseStatement", start |-> q, node |-> r.node]
                /\ pc' = "parse"
    /\ lexer' = p'.lexer
    /\ UNCHANGED <<words, tok>>

\* one iteration of the loop of ParseProgram
ParseProgramIteration ==
    /\ pc \in {"ready", "parse"}
    /\ p.curToken.Type # EOF
    /\ LET q == skipWhitespaceTokens(p)
           r == p_parseStatement(q)
       IN  IF q.curToken.Type = EOF
           THEN /\ p' = q
                /\ pc' = "done"
                /\ UNCHANGED <<program, last>>
           ELSE /\ p' = p_nextToken(r.p)
                /\ program' = IF ~IsNil(r.node) THEN Append(program, r.node) ELSE program
                /\ last' = [call |-> "parseStatement", start |-> q, node |-> r.node]
                /\ pc' = "parse"
    /\ lexer' = p'.lexer
    /\ UNCHANGED <<words, tok>>

\* the loop of ParseProgram ends and the Program is returned
ParseProgramReturn ==
    /\ pc \in {"ready", "parse"}
    /\ p.curToken.Type = EOF
    /\ pc' = "done"
    /\ UNCHANGED <<words, lexer, tok, p, program, last>>

\* demoTypeofEvaluation: expr := parser.parseExpression(LOWEST)
CallParseExpression ==
    /\ pc = "ready"
    /\ LET r == p_parseExpression(p, LOWEST)
       IN  /\ p' = r.p
           /\ last' = [call |-> "parseExpression", start |-> p, node |-> r.node]
    /\ lexer' = p'.lexer
    /\ pc' = "expr"
    /\ UNCHANGED <<words, tok, program>>

\* the token kinds the parse functions pass to expectPeek
ExpectedKinds == {IDENT, ASSIGN, LPAREN, RPAREN, LBRACE, IN_KW}

\* p.expectPeek(t), as the parse functions call it between two statements
CallExpectPeek ==
    /\ pc \in {"ready", "parse"}
    /\ \E t \in ExpectedKinds :
           LET r == p_expectPeek(p, t)
           IN  /\ p' = r.p
               /\ last' = [call |-> "expectPeek", start |-> p, node |-> Nil,
                           arg |-> t, ok |-> r.ok]
    /\ lexer' = p'.lexer
    /\ pc' = "peeked"
    /\ UNCHANGED <<words, tok, program>>

\* block := p.parseBlockStatement(), called as the parse functions call it:
\* with the opening brace as the current token
CallParseBlockStatement ==
    /\ pc = "ready"
    /\ p.curToken.Type = LBRACE
    /\ LET r == p_parseBlockStatement(p)
       IN  /\ p' = r.p
           /\ last' = [call |-> "parseBlockStatement", start |-> p, node |-> r.node]
    /\ lexer' = p'.lexer
    /\ pc' = "block"
    /\ UNCHANGED <<words, tok, program>>

Next ==
    \/ LexNextToken
    \/ CallNewParser
    \/ ParseProgramIteration
    \/ ParseProgramReturn
    \/ CallParseExpression
    \/ CallExpectPeek
    \/ CallParseBlockStatement

Spec == Init /\ [][Next]_vars



-----------------------------------------------------------------------------
(* The properties *)

\* the number of bytes the parser's lexer has read: it grows by at least one
\* with every token that is pulled
Pos(q) == q.lexer.readPosition

Exhausted(l) == l.position >= Len(l.input)

AnIfStatement(q) ==
    [node |-> "IfStatement", Token |-> q.curToken, Condition |-> Identifier(q.curToken),
     ThenBlock |-> BlockStatement(q.curToken, <<>>), ElseIfs |-> <<>>,
     ElseBlock |-> NilPtr("BlockStatement")]

\* one iteration of each inner loop of the parser, started in the Parser
\* object's present state where the loop's condition holds, pulls a token
LoopsAdvance ==
    pc \in {"ready", "parse"} =>
        /\ parseBlockStatementCond(p) =>
               Pos(parseBlockStatementIteration(p, <<>>).p) > Pos(p)
        /\ parseExpressionCond(p, LOWEST) =>
               Pos(parseExpressionIteration(p, Identifier(p.curToken)).p) > Pos(p)
        /\ p.peekToken.Type = COMMA =>
               Pos(parseFunctionParametersIteration(p, <<>>).p) > Pos(p)
        /\ p.peekToken.Type = ELSE_KW =>
               Pos(parseElseClause(p, AnIfStatement(p)).p) > Pos(p)

\* the number of bytes read stays within a bound fixed by the input, so a
\* loop whose every iteration reads a byte makes finitely many iterations
PosBounded ==
    pc \in {"ready", "parse", "done"} => Pos(p) <= 2 * Len(p.lexer.input) + 4

\* C1: the lexer and ParseProgram end on every input.  Every NextToken call
\* moves the lexer's position forward, and once the position is past the end
\* of the input the token returned is EOF, so EOF is reached within
\* Len(input) + 2 calls.  Every iteration of the ParseProgram loop pulls at
\* least one token and the number of bytes read is bounded, so the loop ends,
\* and it ends with the current token EOF.  Every iteration of the
\* parseBlockStatement loop, of the infix loop of parseExpression, of the
\* parameter-list loop and of the else / else-if loop pulls at least one token.
C1_Terminates ==
    /\ [][pc' = "lex" => /\ lexer'.position > lexer.position
                         /\ lexer'.readPosition > lexer.readPosition]_vars
    /\ [](pc = "lex" /\ lexer.position > Len(lexer.input) + 1 => tok = Token(EOF, <<>>))
    /\ [][pc' = "parse" => Pos(p') > Pos(p)]_vars
    /\ []PosBounded
    /\ [](pc = "done" => p.curToken.Type = EOF)
    /\ []LoopsAdvance

\* ParseProgram has returned on an input read to its end, with a function of
\* two parameters or more and a statement in its body in the Program
C1_Witness ==
    /\ pc = "done"
    /\ Exhausted(lexer)
    /\ \E i \in DOMAIN program :
           /\ program[i].node = "FunctionStatement"
           /\ Len(program[i].Parameters) >= 2
           /\ Len(program[i].Body.Statements) >= 1

\* C2: once the lexer has consumed every byte of its input, every NextToken
\* call returns the token of type EOF with the empty literal.
C2_EOFForever ==
    [][(pc' = "lex" /\ Exhausted(lexer)) => tok' = Token(EOF, <<>>)]_vars

\* NextToken has been called twice or more after the end of a non-empty input
C2_Witness ==
    /\ pc = "lex"
    /\ Len(lexer.input) > 0
    /\ lexer.position >= Len(lexer.input) + 2
    /\ tok = Token(EOF, <<>>)

\* the node of an operand and the token of an operator, from their lexemes
Operand(w) ==
    IF isDigit(w[1])
    THEN [node |-> "IntegerLiteral", Token |-> Token(INT, w), Value |-> ParseInt(w).value]
    ELSE Identifier(Token(IDENT, w))

OperatorToken(w) == Token(Str(w), w)

\* the tree of a op1 b op2 c by the precedence table
ChainTree(ws) ==
    LET a == Operand(ws[1])
        b == Operand(ws[3])
        c == Operand(ws[5])
        t1 == OperatorToken(ws[2])
        t2 == OperatorToken(ws[4])
    IN  IF precedences[t2.Type] <= precedences[t1.Type]
        THEN InfixExpression(t2, InfixExpression(t1, a, b), c)
        ELSE InfixExpression(t1, a, InfixExpression(t2, b, c))

\* C3: for a op1 b op2 c, with op1 and op2 among + - * / % == != < > && ||
\* and identifiers or integer literals as operands, parseExpression(LOWEST)
\* returns (a op1 b) op2 c when the precedence of op2 is at most that of op1
\* and a op1 (b op2 c) otherwise, with no error; ParseProgram returns the same
\* tree as its one expression statement.
C3_Precedence ==
    words \in ChainTexts =>
        /\ pc = "expr" => last.node = ChainTree(words) /\ p.errors = <<>>
        /\ pc = "done" => /\ Len(program) = 1
                          /\ program[1].node = "ExpressionStatement"
                          /\ program[1].Expression = ChainTree(words)
                          /\ p.errors = <<>>

\* parseExpression(LOWEST) has returned the tree of a chain whose second
\* operator binds tighter than the first
C3_Witness ==
    /\ pc = "expr"
    /\ words \in ChainTexts
    /\ precedences[Str(words[4])] > precedences[Str(words[2])]
    /\ last.node = ChainTree(words)
    /\ last.node.Right.node = "InfixExpression"

\* C4: a OP b with OP one of < > <= >= parses to one InfixExpression with
\* that operator and the two operands, and no error is recorded.
C4_Comparisons ==
    (pc = "expr" /\ words \in CompareTexts) =>
        /\ last.node = InfixExpression(OperatorToken(words[2]), Operand(words[1]),
                                       Operand(words[3]))
        /\ p.errors = <<>>

\* the last call was parseStatement, made by ParseProgram, on a statement
\* that starts with a type token
TypeStatement ==
    /\ last.call = "parseStatement"
    /\ last.start.curToken.Type \in {TYPE, VOID}

\* the errors appended during the last call
NewErrors == SubSeq(p.errors, Len(last.start.errors) + 1, Len(p.errors))

\* C5: when a statement starts with a type token followed by an identifier,
\* the token after the identifier decides: after `(` the result is that of
\* function-declaration parsing (a FunctionStatement of that name and return
\* type, with zero parameters for `T foo ( ) { }`), after `=` it is a
\* VariableDeclaration of that name, and after any other token there is no
\* statement node and one error is recorded, which names the missing `=`.
C5_Dispatch ==
    (TypeStatement /\ last.start.peekToken.Type = IDENT) =>
        LET third == last.start.peekPeek.Type
            name == Identifier(last.start.peekToken)
        IN  /\ third = LPAREN =>
                   \/ last.node = NilPtr("FunctionStatement")
                   \/ /\ last.node.node = "FunctionStatement"
                      /\ last.node.Name = name
                      /\ last.node.ReturnType = last.start.curToken
            /\ (third = LPAREN /\ SubSeq(words, 4, Len(words)) = <<<<")">>, <<"{">>, <<"}">>>>) =>
                   /\ last.node.node = "FunctionStatement"
                   /\ last.node.Parameters = <<>>
                   /\ NewErrors = <<>>
            /\ third = ASSIGN =>
                   /\ last.node.node = "VariableDeclaration"
                   /\ last.node.Name = name
                   /\ last.node.Token = last.start.curToken
            /\ third \notin {LPAREN, ASSIGN} =>
                   /\ Absent(last.node)
                   /\ NewErrors = <<"expected next token to be =, got " \o third \o " instead">>

\* parseStatement has returned no node for `T foo ;` and recorded the error
C5_Witness ==
    /\ TypeStatement
    /\ last.start.peekToken.Type = IDENT
    /\ last.start.peekPeek.Type = SEMICOLON
    /\ Absent(last.node)
    /\ NewErrors = <<"expected next token to be =, got ; instead">>

\* C6: whenever a statement starts with a type token and the two tokens after
\* it are neither `IDENT (` nor `IDENT =`, also when the token after the type
\* is no identifier, at least one error is recorded for that statement.
C6_TypeError ==
    (/\ TypeStatement
     /\ ~(/\ last.start.peekToken.Type = IDENT
          /\ last.start.peekPeek.Type \in {LPAREN, ASSIGN}))
        => Len(NewErrors) >= 1

\* C7: for two if statements in sequence, each with a header malformed in one
\* place, ParseProgram returns with exactly two errors.
C7_TwoErrors ==
    (pc = "done" /\ words \in TwoIfTexts) => Len(p.errors) = 2

\* what the source of an if chain says: where its clauses start, and the
\* first lexeme of a clause's condition and of its body
ElseAt(ws, i) == ws[i] = kw_else

ElseIfAt(ws, i) == ElseAt(ws, i) /\ i < Len(ws) /\ ws[i + 1] = kw_if

PlainElses(ws) == {i \in DOMAIN ws : ElseAt(ws, i) /\ ~ElseIfAt(ws, i)}

FirstPlainElse(ws) ==
    IF PlainElses(ws) = {} THEN Len(ws) + 1
    ELSE CHOOSE i \in PlainElses(ws) : \A j \in PlainElses(ws) : i <= j

\* the else-if clauses before the first plain else, in source order
ElseIfsOf(ws) == {i \in DOMAIN ws : ElseIfAt(ws, i) /\ i < FirstPlainElse(ws)}

RECURSIVE Sorted(_)
Sorted(S) ==
    IF S = {} THEN <<>>
    ELSE LET m == CHOOSE i \in S : \A j \in S : i <= j
         IN  <<m>> \o Sorted(S \ {m})

\* the lexeme after the first `{` at or after position i
BodyWord(ws, i) ==
    LET j == CHOOSE k \in i..Len(ws) : ws[k] = <<"{">> /\ \A m \in i..(k - 1) : ws[m] # <<"{">>
    IN  ws[j + 1]

\* the first lexeme of a parsed condition and of a parsed one-statement block
ConditionHead(c) == IF c.node = "InfixExpression" THEN c.Left.Token.Literal ELSE c.Token.Literal

BlockHead(b) ==
    IF b.node = "BlockStatement" /\ Len(b.Statements) = 1
          /\ b.Statements[1].node = "ExpressionStatement"
    THEN b.Statements[1].Expression.Token.Literal
    ELSE <<>>

\* C8: for if (a) body followed by n `else if` clauses and an optional plain
\* else, the first statement of the Program is an IfStatement with exactly n
\* ElseIfs entries, whose conditions and blocks are those of the source in
\* order; ElseBlock is populated exactly when a plain else is present, and
\* holds the body of the first plain else: nothing after it is attached.
C8_ElseIfChain ==
    (pc = "done" /\ words \in IfChainTexts) =>
        LET clauses == Sorted(ElseIfsOf(words))
            s == program[1]
        IN  /\ Len(program) >= 1
            /\ s.node = "IfStatement"
            /\ BlockHead(s.ThenBlock) = BodyWord(words, 1)
            /\ Len(s.ElseIfs) = Len(clauses)
            /\ \A k \in DOMAIN clauses :
                   /\ ConditionHead(s.ElseIfs[k].Condition) = words[clauses[k] + 3]
                   /\ BlockHead(s.ElseIfs[k].Block) = BodyWord(words, clauses[k])
            /\ ~Absent(s.ElseBlock) <=> PlainElses(words) # {}
            /\ PlainElses(words) # {} =>
                   BlockHead(s.ElseBlock) = BodyWord(words, FirstPlainElse(words))

\* C9: for T name() { return; } ParseProgram returns a Program of exactly
\* one statement, a FunctionStatement named name with an empty parameter
\* list and return type T, whose body holds exactly one ReturnStatement with
\* an absent value, and no error is recorded.
C9_FunctionReturn ==
    (pc = "done" /\ words \in ReturnTexts) =>
        /\ Len(program) = 1
        /\ program[1].node = "FunctionStatement"
        /\ program[1].Name.Value \o <<"(", ")">> = words[2]
        /\ program[1].Parameters = <<>>
        /\ program[1].ReturnType.Literal = words[1]
        /\ program[1].Body.node = "BlockStatement"
        /\ Len(program[1].Body.Statements) = 1
        /\ program[1].Body.Statements[1].node = "ReturnStatement"
        /\ Absent(program[1].Body.Statements[1].ReturnValue)
        /\ p.errors = <<>>

\* ParseProgram has returned on `void test() { return; }`
C9_Witness ==
    /\ pc = "done"
    /\ words = <<kw_void, id_test \o <<"(", ")">>, <<"{">>, kw_return \o <<";">>, <<"}">>>>
    /\ Len(program) = 1
    /\ program[1].node = "FunctionStatement"
    /\ program[1].Body.Statements[1].node = "ReturnStatement"

\* C10: whenever parseStatement, called with a current token other than `}`,
\* `;` and EOF, returns an absent statement, at least one error was appended
\* to the error list during that call.
C10_AbsentHasError ==
    (/\ last.call = "parseStatement"
     /\ last.start.curToken.Type \notin {RBRACE, SEMICOLON, EOF}
     /\ Absent(last.node))
        => Len(NewErrors) >= 1

\* the children of a node, absent ones included, in the order of its fields
Kids(n) ==
    CASE n.node = "PrefixExpression" -> <<n.Right>>
      [] n.node = "InfixExpression" -> <<n.Left, n.Right>>
      [] n.node = "TypeOfExpression" -> <<n.Expr>>
      [] n.node = "ReturnStatement" -> <<n.ReturnValue>>
      [] n.node = "ExpressionStatement" -> <<n.Expression>>
      [] n.node = "VariableDeclaration" -> <<n.Name, n.Value>>
      [] n.node = "BlockStatement" -> n.Statements
      [] n.node = "WhileStatement" -> <<n.Block, n.Condition>>
      [] n.node = "LoopStatement" -> <<n.Block>>
      [] n.node = "ForStatement" -> <<n.Identifier, n.Iterable, n.Block>>
      [] n.node = "FunctionStatement" -> <<n.Name>> \o n.Parameters \o <<n.Body>>
      [] n.node = "Parameter" -> <<n.Name>>
      [] n.node = "IfStatement" ->
             <<n.Condition, n.ThenBlock>>
             \o [i \in 1..(2 * Len(n.ElseIfs)) |->
                    IF i % 2 = 1 THEN n.ElseIfs[(i + 1) \div 2].Condition
                                 ELSE n.ElseIfs[i \div 2].Block]
             \o <<n.ElseBlock>>
      [] OTHER -> <<>>

\* the nodes of a tree, the absent children of its nodes included
RECURSIVE Nodes(_)
Nodes(n) == {n} \cup UNION {Nodes(Kids(n)[i]) : i \in DOMAIN Kids(n)}

\* the trees the parse functions have handed out so far
Returned == {program[i] : i \in DOMAIN program} \cup {last.node}

\* a prefix expression, an infix expression or a declaration without the
\* expression it is built around
OperandMissing(n) ==
    \/ n.node = "PrefixExpression" /\ Absent(n.Right)
    \/ n.node = "InfixExpression" /\ (Absent(n.Left) \/ Absent(n.Right))
    \/ n.node = "VariableDeclaration" /\ Absent(n.Value)

\* C11: no tree handed out by parseStatement, parseExpression or ParseProgram
\* holds a PrefixExpression, an InfixExpression or a VariableDeclaration whose
\* operand or initializer is absent: an absent operand makes the parent absent.
C11_OperandsPresent ==
    \A t \in Returned : \A n \in Nodes(t) : ~OperandMissing(n)

\* the children a node cannot do without: all of them, but for the value of
\* a return statement and the else block of an if statement
RequiredKids(n) ==
    CASE n.node = "ReturnStatement" -> <<>>
      [] n.node = "IfStatement" -> SubSeq(Kids(n), 1, Len(Kids(n)) - 1)
      [] OTHER -> Kids(n)

MissingChild(n) == \E i \in DOMAIN RequiredKids(n) : Absent(RequiredKids(n)[i])

\* C12: when ParseProgram returns with an empty error list, the tree is
\* complete: every statement of the Program is a node, and every node of the
\* tree has all the children it requires, also for an input that ends in the
\* middle of an expression.
C12_NoErrorsComplete ==
    (pc = "done" /\ p.errors = <<>>) =>
        \A i \in DOMAIN program :
            /\ ~Absent(program[i])
            /\ \A n \in Nodes(program[i]) : ~MissingChild(n)

\* the tokens NextToken yields from the lexer state l, up to the first EOF
RECURSIVE TokenStream(_)
TokenStream(l) ==
    LET r == NextToken(l)
    IN  IF r.tok.Type = EOF THEN <<r.tok>> ELSE <<r.tok>> \o TokenStream(r.l)

HasIllegal(input) ==
    \E i \in DOMAIN TokenStream(NewLexer(input)) :
        TokenStream(NewLexer(input))[i].Type = ILLEGAL

\* C13: when the tokens of the input up to the first EOF include an ILLEGAL
\* token, the error list is not empty once ParseProgram has returned.
C13_IllegalReported ==
    (pc = "done" /\ HasIllegal(p.lexer.input)) => p.errors # <<>>

\* the messages parsePrefixExpression records when a conversion fails
IntError(lit) == "could not parse \"" \o Str(lit) \o "\" as integer"

FloatError(lit) == "could not parse \"" \o Str(lit) \o "\" as float"

ConversionErrors(input) ==
    LET ts == TokenStream(NewLexer(input))
    IN  {IntError(ts[i].Literal) : i \in DOMAIN ts} \cup {FloatError(ts[i].Literal) : i \in DOMAIN ts}

\* the leftmost operand of an expression
RECURSIVE Leftmost(_)
Leftmost(n) == IF n.node = "InfixExpression" THEN Leftmost(n.Left) ELSE n

\* C14 as the specification has it: the conversion of a literal that the
\* lexer has flagged INT or FLOAT never fails, so no error "could not parse
\* ... as integer" or "could not parse ... as float" is ever recorded.
C14_NeverFails ==
    pc \in {"ready", "parse", "done", "expr"} =>
        \A i \in DOMAIN p.errors : p.errors[i] \notin ConversionErrors(p.lexer.input)

\* C14: the conversion of a literal that the lexer has flagged INT or FLOAT
\* fails only for its range.  parseExpression on an INT token of a value up
\* to 9223372036854775807 or on a FLOAT token within the range of float64
\* returns an expression that starts with the literal's node and records no
\* conversion error for it; on an INT token of a larger value it records
\* "could not parse ... as integer" and returns no expression.
C14_FailsOnlyOnRange ==
    (pc = "expr" /\ last.start.curToken.Type \in {INT, FLOAT}) =>
        LET t == last.start.curToken
        IN  IF t.Literal \in OverflowNumbers
            THEN /\ IsNil(last.node)
                 /\ NewErrors = <<IntError(t.Literal)>>
            ELSE /\ Leftmost(last.node).node =
                        (IF t.Type = INT THEN "IntegerLiteral" ELSE "FloatLiteral")
                 /\ Leftmost(last.node).Token = t
                 /\ \A i \in DOMAIN p.errors :
                        p.errors[i] \notin {IntError(t.Literal), FloatError(t.Literal)}

\* parseExpression has converted the largest int64 and has gone on to an
\* operator after it
C14_Witness ==
    /\ pc = "expr"
    /\ last.start.curToken = Token(INT, MaxInt64)
    /\ last.node.node = "InfixExpression"
    /\ last.node.Left.Value = MaxInt64
    /\ p.errors = <<>>

\* a block of one statement
OneStatement(b) == b.node = "BlockStatement" /\ Len(b.Statements) = 1

\* C15: in if (a) S else T and if (a) S else if (b) S2 else T, where S, S2
\* and T are single statements without braces, of any kind, with or without
\* a semicolon, ParseProgram returns one IfStatement whose then block, else-if
\* blocks and else block each hold exactly one statement, the `else` being
\* attached to that IfStatement, and records no error.
C15_UnbracedBodies ==
    (pc = "done" /\ words \in UnbracedTexts) =>
        /\ p.errors = <<>>
        /\ Len(program) = 1
        /\ program[1].node = "IfStatement"
        /\ OneStatement(program[1].ThenBlock)
        /\ Len(program[1].ElseIfs) = (IF words \in UnbracedElseIfTexts THEN 1 ELSE 0)
        /\ \A i \in DOMAIN program[1].ElseIfs : OneStatement(program[1].ElseIfs[i].Block)
        /\ OneStatement(program[1].ElseBlock)

\* C16: expectPeek(t) on a parser whose next token is of kind t moves the
\* window on by exactly one token (the next token becomes the current one,
\* the one after it the next one, and one token is pulled from the lexer),
\* records nothing and returns true; otherwise it appends exactly one error,
\* leaves the three tokens of the window and the lexer as they were, and
\* returns false.
C16_ExpectPeek ==
    pc = "peeked" =>
        LET q == last.start
        IN  IF q.peekToken.Type = last.arg
            THEN /\ last.ok
                 /\ p.curToken = q.peekToken
                 /\ p.peekToken = q.peekPeek
                 /\ p.peekPeek = NextToken(q.lexer).tok
                 /\ p.lexer = NextToken(q.lexer).l
                 /\ p.errors = q.errors
            ELSE /\ ~last.ok
                 /\ Len(p.errors) = Len(q.errors) + 1
                 /\ SubSeq(p.errors, 1, Len(q.errors)) = q.errors
                 /\ p.errors[Len(p.errors)] =
                        "expected next token to be " \o last.arg \o ", got "
                        \o q.peekToken.Type \o " instead"
                 /\ p.curToken = q.curToken
                 /\ p.peekToken = q.peekToken
                 /\ p.peekPeek = q.peekPeek
                 /\ p.lexer = q.lexer

\* expectPeek has failed on a parser that had recorded errors before, with
\* input still ahead
C16_Witness ==
    /\ pc = "peeked"
    /\ ~last.ok
    /\ last.start.errors # <<>>
    /\ last.start.peekToken.Type \notin {EOF, last.arg}

\* the NextToken calls that take a new lexer on the input of `target` to the
\* position of `target`: the lexer reached and the tokens returned on the way
RECURSIVE PullTo(_, _, _)
PullTo(l, target, toks) ==
    IF l.readPosition >= target.readPosition
    THEN [l |-> l, toks |-> toks]
    ELSE LET r == NextToken(l) IN PullTo(r.l, target, Append(toks, r.tok))

Pulled(q) == PullTo(NewLexer(q.lexer.input), q.lexer, <<>>)

\* the number of tokens the parser's lexer has been asked for
Calls(q) == Len(Pulled(q).toks)

\* the window of q is the last three tokens of the stream pulled so far
Window(q) ==
    LET s == Pulled(q)
        n == Len(s.toks)
    IN  /\ s.l = q.lexer
        /\ n >= 3
        /\ q.curToken = s.toks[n - 2]
        /\ q.peekToken = s.toks[n - 1]
        /\ q.peekPeek = s.toks[n]

\* C17: with i the number of nextToken calls made since NewParser returned,
\* (curToken, peekToken, peekPeek) are the tokens i, i+1 and i+2 of the
\* lexer's stream and the lexer has been asked for exactly i+3 tokens: i is 0
\* when NewParser returns and grows by exactly one with a nextToken call,
\* whether the call is made by expectPeek or directly.
C17_Window ==
    /\ pc \in {"ready", "parse", "done", "expr", "peeked"} => Window(p)
    /\ pc = "ready" => Calls(p) = 3
    /\ pc \in {"ready", "parse", "done"} =>
           /\ Calls(nextToken(p)) = Calls(p) + 1
           /\ Window(nextToken(p))
    /\ pc = "peeked" =>
           Calls(p) = Calls(last.start) + (IF last.ok THEN 1 ELSE 0)

\* a successful expectPeek in the middle of an input, three tokens or more
\* after the start
C17_Witness ==
    /\ pc = "peeked"
    /\ last.ok
    /\ Calls(p) >= 7
    /\ p.peekPeek.Type # EOF

\* the index in ws of the brace that closes the block opened before ws[i],
\* `depth` further blocks being open at ws[i]; 0 when the block is not closed
RECURSIVE ClosingBrace(_, _, _)
ClosingBrace(ws, i, depth) ==
    IF i > Len(ws) THEN 0
    ELSE IF ws[i] = <<"}">>
    THEN (IF depth = 0 THEN i ELSE ClosingBrace(ws, i + 1, depth - 1))
    ELSE IF ws[i] = <<"{">> THEN ClosingBrace(ws, i + 1, depth + 1)
    ELSE ClosingBrace(ws, i + 1, depth)

\* C18: parseBlockStatement, called on the opening brace of a block, returns
\* with the current token on the closing brace of that block, not beyond it
\* (on EOF when the block is never closed), so that no statement after the
\* closing brace is placed in the block.
C18_BlockEndsAtBrace ==
    pc = "block" =>
        LET m == ClosingBrace(words, 2, 0)
        IN  /\ last.node.node = "BlockStatement"
            /\ IF m = 0
               THEN p.curToken.Type = EOF
               ELSE /\ p.curToken.Type = RBRACE
                    /\ Calls(p) - 3 = m - 1
            /\ \A n \in Nodes(last.node) :
                   n.node = "Identifier" => n.Value # <<"z">>

\* the places of the double quotes of an input, and the last of them
QuotePlaces(input) == {i \in DOMAIN input : input[i] = "\""}

LastQuote(input) == CHOOSE k \in QuotePlaces(input) : \A i \in QuotePlaces(input) : i <= k

\* the input ends inside a string: its last quote opens a string
Unterminated(input) == Cardinality(QuotePlaces(input)) % 2 = 1

\* C19: on an input whose last double quote opens a string that is never
\* closed, the NextToken call that starts on that quote returns one STRING
\* token whose text is every byte after the quote up to the end of the input,
\* and every later call returns EOF, never ILLEGAL.
C19_UnterminatedString ==
    [][(pc' = "lex" /\ Unterminated(lexer.input)) =>
          LET k  == LastQuote(lexer.input)
              l0 == skipWhitespace(lexer)
          IN  /\ l0.position = k - 1 =>
                     tok' = Token(STRING_T, SubSeq(lexer.input, k + 1, Len(lexer.input)))
              /\ l0.position > k - 1 => tok' = Token(EOF, <<>>)]_vars

\* n + 1 for the numerals within range
SumTexts == {<<n, <<"+">>, <<"1">>>> : n \in Int64Numbers \cup FloatNumbers}

\* C20: a float literal behaves like an integer literal as a prefix term.
\* When parseExpression is called on an INT or FLOAT token that no operator
\* follows, it returns with the literal's own token as the current token and
\* has pulled no token; and n + 1 parses to one InfixExpression, one
\* statement and no error, whether n is an integer or a float.
C20_FloatLikeInteger ==
    /\ (/\ pc = "expr"
        /\ last.start.curToken.Type \in {INT, FLOAT}
        /\ (last.start.peekToken.Type \in {SEMICOLON, EOF} \/ peekPrecedence(last.start) = LOWEST))
       => /\ p.curToken = last.start.curToken
          /\ p.lexer = last.start.lexer
    /\ (pc = "expr" /\ words \in SumTexts)
       => /\ last.node.node = "InfixExpression"
          /\ p.errors = <<>>
    /\ (pc = "done" /\ words \in SumTexts)
       => /\ Len(program) = 1
          /\ p.errors = <<>>

\* the binary operators of the language, as lexemes and as token kinds
BinaryLexemes == BinaryOperators \cup Comparisons

BinaryKinds == {OR, AND, EQ, NOT_EQ, LT, GT, LE, GE, ADD, SUB, MUL, DIV, MOD}

\* C21: every InfixExpression of a tree handed out by the parser has one of
\* the binary operators || && == != < > <= >= + - * / % for its operator;
\* and parseExpression, called on an identifier that a token of another
\* kind follows (a `(` for instance), returns the identifier with that token
\* still ahead: the token is not consumed as an infix operator.
C21_InfixOperators ==
    /\ \A t \in Returned : \A n \in Nodes(t) :
           n.node = "InfixExpression" =>
               /\ n.Operator \in BinaryLexemes
               /\ n.Token.Type \in BinaryKinds
    /\ (/\ pc = "expr"
        /\ last.start.curToken.Type = IDENT
        /\ last.start.peekToken.Type \notin BinaryKinds)
       => /\ last.node = Identifier(last.start.curToken)
          /\ p.curToken = last.start.curToken
          /\ p.peekToken = last.start.peekToken

\* C22: NextToken returns EOF only once every byte of the input is consumed,
\* a zero byte in the input included: the call that returns EOF leaves the
\* lexer at or past the end of the input, every call after an EOF returns
\* EOF, and when ParseProgram returns on its first EOF token no token of the
\* input is left unseen: the tokens after the current one are EOF as well.
C22_EOFOnlyAtEnd ==
    /\ [][(pc' = "lex" /\ tok'.Type = EOF) => Exhausted(lexer')]_vars
    /\ [][(pc = "lex" /\ tok.Type = EOF /\ pc' = "lex") => tok'.Type = EOF]_vars
    /\ [](pc = "done" => /\ p.curToken.Type = EOF
                         /\ p.peekToken.Type = EOF
                         /\ p.peekPeek.Type = EOF
                         /\ Exhausted(p.lexer))

=============================================================================
